---- MODULE Spec2Model ----
(***************************************************************************)
(* Model of the wamp_async session engine (src/src/core), of the facade    *)
(* that feeds it commands (src/src/client.rs) and of the channels between  *)
(* them.  The engine is a single task: every handler below is one atomic   *)
(* step of Core::event_loop.  The router is the environment: it may send   *)
(* any message of PeerMsgs at any time.                                    *)
(***************************************************************************)
EXTENDS Integers, Sequences, FiniteSets, TLC

\* ---------------------------------------------------------------- bounds
MaxCmds == 2        \* subscribe/unsubscribe/publish/register/unregister/call calls made
MaxJoins == 1       \* HELLO messages written over a run
MaxEvents == 2      \* EVENT messages accepted per subscription queue
MaxInvocations == 1 \* INVOCATION messages accepted over a run
MaxChallenges == 2  \* CHALLENGE messages answered over a run
MaxUriLen == 3      \* length of the URIs enumerated character by character
MaxRejoins == 1     \* HELLO messages written after a Leave, by a client that rejoins

\* ---------------------------------------------------------------- domains
ReqIds == {1, 2}    \* values WampId::generate can return for a request
SubIds == {7}       \* subscription ids the router hands out
RegIds == {5}       \* registration ids the router hands out
PubIds == {100, 101}
Cmds == 1 .. MaxCmds
MutRes == MaxCmds + 1   \* the reply channel of the join_realm or leave_realm in progress
Chans == Cmds \cup {MutRes}
NoId == 0           \* Option::None for an id, "no entry" in a table

\* (details, args, kwargs) triples carried by EVENT, RESULT, INVOCATION, an
\* RPC handler's Ok value and ERROR; "none" is Option::None
Payloads ==
    { [details |-> "d0", args |-> "none", kwargs |-> "none"],
      [details |-> "d1", args |-> "a2", kwargs |-> "k1"] }

\* ---------------------------------------------------------------- message codes
HELLO_ID == 1
WELCOME_ID == 2
ABORT_ID == 3
CHALLENGE_ID == 4
AUTHENTICATE_ID == 5
GOODBYE_ID == 6
ERROR_ID == 8
PUBLISH_ID == 16
PUBLISHED_ID == 17
SUBSCRIBE_ID == 32
SUBSCRIBED_ID == 33
UNSUBSCRIBE_ID == 34
UNSUBSCRIBED_ID == 35
EVENT_ID == 36
CALL_ID == 48
RESULT_ID == 50
REGISTER_ID == 64
REGISTERED_ID == 65
UNREGISTER_ID == 66
UNREGISTERED_ID == 67
INVOCATION_ID == 68
YIELD_ID == 70

\* A WAMP message.  Every message has the same fields so that any two can be
\* compared; a field a kind does not carry is 0 / "".
\*   typ     ERROR's request type
\*   request request id          id  subscription / registration / session id
\*   id2     publication id      uri reason / error uri / topic / procedure
Msg(code, typ, request, id, id2, details, uri, args, kwargs) ==
    [code |-> code, typ |-> typ, request |-> request, id |-> id, id2 |-> id2,
     details |-> details, uri |-> uri, args |-> args, kwargs |-> kwargs]

\* Msg::request_id : the kinds that carry a request id
request_id(msg) ==
    IF msg.code \in {ERROR_ID, PUBLISH_ID, PUBLISHED_ID, SUBSCRIBE_ID, SUBSCRIBED_ID,
                     UNSUBSCRIBE_ID, UNSUBSCRIBED_ID, CALL_ID, RESULT_ID, REGISTER_ID,
                     REGISTERED_ID, UNREGISTER_ID, UNREGISTERED_ID, YIELD_ID}
    THEN msg.request
    ELSE NoId

\* ---------------------------------------------------------------- reply values
\* What a single-shot reply channel carries: Ok(..) or Err(WampError).
\*   id     the subscription / registration / publication id of an Ok (NoId = None)
\*   err    "" for Ok, else the WampError variant
Reply(ok, id, args, kwargs, err, uri, details) ==
    [ok |-> ok, id |-> id, args |-> args, kwargs |-> kwargs,
     err |-> err, uri |-> uri, details |-> details]
ReplyOk(id, args, kwargs) == Reply(TRUE, id, args, kwargs, "", "", "")
ReplyErr(err, uri, details) == Reply(FALSE, NoId, "none", "none", err, uri, details)

\* WampError::ServerError(uri, details)
ServerError(uri, details) == ReplyErr("ServerError", uri, details)


\* ---------------------------------------------------------------- state
VARIABLES
    pc,                   \* where Core::event_loop is: "init", "running", "joining", "terminated"
    valid_session,        \* Core::valid_session, the realm-joined flag
    pending_requests,     \* Core::pending_requests
    pending_transactions, \* Core::pending_transactions : request id -> reply channel
    pending_sub,          \* Core::pending_sub          : request id -> reply channel
    pending_register,     \* Core::pending_register     : request id -> (handler, reply channel)
    pending_call,         \* Core::pending_call         : request id -> reply channel
    subscriptions,        \* Core::subscriptions        : subscription id -> event queue
    rpc_endpoints,        \* Core::rpc_endpoints        : registration id -> handler
    rpc_event_queue,      \* the RPC work channel (rpc_event_queue_w -> rpc_event_queue_r)
    ctl_channel,          \* the command channel (Client::ctl_channel -> Core::ctl_channel)
    joining,              \* the Join request join_realm is serving while pc = "joining"
    sock_out,             \* every message written on the transport, in order
    core_res,             \* the status channel (Core::core_res -> Client::core_res)
    res_val,              \* reply channel -> the values sent on it
    res_closed,           \* reply channels whose sender was dropped without a send
    evt_queue,            \* event queue -> the events pushed on it
    cmds,                 \* reply channel -> the facade call that created it
    req_of,               \* reply channel -> the request id create_request drew for it
    n_inv,                \* INVOCATION messages accepted so far
    core_status,          \* Client::core_status
    session_id,           \* Client::session_id
    client_pc,            \* what the facade's &mut self caller is doing
    client_res,           \* the reply channel that caller awaits
    call_arg,             \* the argument of a call of a free function, <<>> if none
    call_ret              \* <<what that call returned>>, <<>> before it returns

engine_vars ==
    <<pc, valid_session, pending_requests, pending_transactions, pending_sub,
      pending_register, pending_call, subscriptions, rpc_endpoints, rpc_event_queue,
      joining, sock_out, res_val, res_closed, evt_queue, req_of, n_inv>>
client_vars == <<core_status, session_id, client_pc, client_res>>
pure_vars == <<call_arg, call_ret>>
vars == <<engine_vars, ctl_channel, core_res, cmds, client_vars, pure_vars>>

\* A reply channel is named by the number of the facade call that created it;
\* join_realm and leave_realm, which run one at a time, use MutRes.  The event
\* queue a SUBSCRIBED creates and the handler a Register carries are named by
\* the reply channel of their command.
NoReq == [kind |-> "None", res |-> NoId, id |-> NoId, ack |-> FALSE,
          args |-> "none", kwargs |-> "none", ok |-> FALSE, handler |-> FALSE]

\* send::Request
Request(kind, res, id, ack, args, kwargs, ok, handler) ==
    [kind |-> kind, res |-> res, id |-> id, ack |-> ack,
     args |-> args, kwargs |-> kwargs, ok |-> ok, handler |-> handler]

\* The part of the state a handler can change, as one value: a handler maps
\* such a value to the next one and sets status to what it returns.
Cur ==
    [pc |-> pc, valid_session |-> valid_session, pending_requests |-> pending_requests,
     pending_transactions |-> pending_transactions, pending_sub |-> pending_sub,
     pending_register |-> pending_register, pending_call |-> pending_call,
     subscriptions |-> subscriptions, rpc_endpoints |-> rpc_endpoints,
     rpc_event_queue |-> rpc_event_queue, joining |-> joining, sock_out |-> sock_out,
     res_val |-> res_val, res_closed |-> res_closed, evt_queue |-> evt_queue,
     req_of |-> req_of, n_inv |-> n_inv, status |-> "Ok"]

EmptyTable == [r \in ReqIds |-> NoId]

\* A client and its engine as Client::connect returns them
Idle ==
    /\ pc = "init"
    /\ valid_session = FALSE
    /\ pending_requests = {}
    /\ pending_transactions = EmptyTable
    /\ pending_sub = EmptyTable
    /\ pending_register = EmptyTable
    /\ pending_call = EmptyTable
    /\ subscriptions = [s \in SubIds |-> NoId]
    /\ rpc_endpoints = [g \in RegIds |-> NoId]
    /\ rpc_event_queue = <<>>
    /\ ctl_channel = <<>>
    /\ joining = NoReq
    /\ sock_out = <<>>
    /\ core_res = <<>>
    /\ res_val = [c \in Chans |-> <<>>]
    /\ res_closed = {}
    /\ evt_queue = [c \in Cmds |-> <<>>]
    /\ cmds = [c \in Chans |-> NoReq]
    /\ req_of = [c \in Chans |-> NoId]
    /\ n_inv = 0
    /\ core_status = "NoEventLoop"
    /\ session_id = NoId
    /\ client_pc = "idle"
    /\ client_res = NoId

Init ==
    /\ Idle
    /\ call_arg = <<>>
    /\ call_ret = <<>>

\* ---------------------------------------------------------------- channels
\* oneshot::Sender::send : the value reaches the receiver
res_send(e, c, v) == [e EXCEPT !.res_val[c] = Append(@, v)]

\* Dropping a oneshot::Sender that was never used closes the channel: the
\* receiver's await ends with RecvError.  NoId: there was nothing to drop.
res_drop(e, c) ==
    IF c = NoId \/ Len(e.res_val[c]) > 0
    THEN e
    ELSE [e EXCEPT !.res_closed = @ \cup {c}]

\* Core::send : pack the message and write it on the transport; io is whether
\* the transport accepts it
core_send(e, msg, io) == IF io THEN [e EXCEPT !.sock_out = Append(@, msg)] ELSE e

\* WampId::generate draws; Core::create_request keeps the first draw that
\* HashSet::insert accepts, i.e. that is not pending
RECURSIVE first_fresh(_, _)
first_fresh(pending, draws) ==
    IF draws = <<>> THEN NoId
    ELSE IF Head(draws) \notin pending THEN Head(draws)
    ELSE first_fresh(pending, Tail(draws))

\* create_request, keeping its first draw whether or not it is pending
create_request_no_retry(e, draws) == Head(draws)

create_request(e, draws) == first_fresh(e.pending_requests, draws)


\* HashMap::insert on a pending table: an entry already under the key is
\* replaced and its reply sender dropped
drop_old(e, old) == res_drop(e, old)

\* What the handlers answer when Core::send fails
SendError == ReplyErr("ConnectionError", "", "")
\* From<String> for WampError
UnknownError == ReplyErr("UnknownError", "", "")

\* ---------------------------------------------------------------- send.rs
\* Each handler takes the state e, the fields of its Request, the draws of
\* WampId::generate and whether the transport accepts the write.

subscribe(e, res, draws, io) ==
    LET request == create_request(e, draws)
        e1 == [e EXCEPT !.pending_requests = @ \cup {request}, !.req_of[res] = request]
    IN  IF ~io
        THEN [res_send([e1 EXCEPT !.pending_requests = @ \ {request}], res, SendError)
                EXCEPT !.status = "Shutdown"]
        ELSE LET e2 == core_send(e1, Msg(SUBSCRIBE_ID, 0, request, NoId, NoId, "{}", "topic", "none", "none"), io)
                 e3 == drop_old(e2, e2.pending_sub[request])
             IN  [e3 EXCEPT !.pending_sub[request] = res]

\* unsubscribe, leaving the subscription in place until UNSUBSCRIBED
unsubscribe_keep(e, sub_id, res, draws, io) ==
    IF e.subscriptions[sub_id] = NoId
    THEN res_send(e, res, UnknownError)
    ELSE LET request == create_request(e, draws)
             e1 == [e EXCEPT !.pending_requests = @ \cup {request}, !.req_of[res] = request]
         IN  IF ~io
             THEN [res_send([e1 EXCEPT !.pending_requests = @ \ {request}], res, SendError)
                     EXCEPT !.status = "Shutdown"]
             ELSE LET e2 == core_send(e1, Msg(UNSUBSCRIBE_ID, 0, request, sub_id, NoId, "", "", "none", "none"), io)
                      e3 == drop_old(e2, e2.pending_transactions[request])
                  IN  [e3 EXCEPT !.pending_transactions[request] = res]

\* unsubscribe, giving no answer when the subscription id is unknown
unsubscribe_no_error(e, sub_id, res, draws, io) ==
    IF e.subscriptions[sub_id] = NoId
    THEN e
    ELSE LET e0 == [e EXCEPT !.subscriptions[sub_id] = NoId]
             request == create_request(e0, draws)
             e1 == [e0 EXCEPT !.pending_requests = @ \cup {request}, !.req_of[res] = request]
         IN  IF ~io
             THEN [res_send([e1 EXCEPT !.pending_requests = @ \ {request}], res, SendError)
                     EXCEPT !.status = "Shutdown"]
             ELSE LET e2 == core_send(e1, Msg(UNSUBSCRIBE_ID, 0, request, sub_id, NoId, "", "", "none", "none"), io)
                      e3 == drop_old(e2, e2.pending_transactions[request])
                  IN  [e3 EXCEPT !.pending_transactions[request] = res]

unsubscribe(e, sub_id, res, draws, io) ==
    IF e.subscriptions[sub_id] = NoId
    THEN res_send(e, res, UnknownError)
    ELSE LET e0 == [e EXCEPT !.subscriptions[sub_id] = NoId]
             request == create_request(e0, draws)
             e1 == [e0 EXCEPT !.pending_requests = @ \cup {request}, !.req_of[res] = request]
         IN  IF ~io
             THEN [res_send([e1 EXCEPT !.pending_requests = @ \ {request}], res, SendError)
                     EXCEPT !.status = "Shutdown"]
             ELSE LET e2 == core_send(e1, Msg(UNSUBSCRIBE_ID, 0, request, sub_id, NoId, "", "", "none", "none"), io)
                      e3 == drop_old(e2, e2.pending_transactions[request])
                  IN  [e3 EXCEPT !.pending_transactions[request] = res]

\* options is {"acknowledge": true} or {}, as Client::publish builds it
publish(e, ack, arguments, arguments_kw, res, draws, io) ==
    LET request == create_request(e, draws)
        e1 == [e EXCEPT !.pending_requests = @ \cup {request}, !.req_of[res] = request]
    IN  IF ~io
        THEN [res_send([e1 EXCEPT !.pending_requests = @ \ {request}], res, SendError)
                EXCEPT !.status = "Shutdown"]
        ELSE LET e2 == core_send(e1, Msg(PUBLISH_ID, 0, request, NoId, NoId,
                                         IF ack THEN "{acknowledge}" ELSE "{}",
                                         "topic", arguments, arguments_kw), io)
                 e3 == drop_old(e2, e2.pending_transactions[request])
             IN  [e3 EXCEPT !.pending_transactions[request] = res]

\* func_ptr, the handler, is named by the reply channel of its Register
register(e, res, draws, io) ==
    LET request == create_request(e, draws)
        e1 == [e EXCEPT !.pending_requests = @ \cup {request}, !.req_of[res] = request]
    IN  IF ~io
        THEN [res_send([e1 EXCEPT !.pending_requests = @ \ {request}], res, SendError)
                EXCEPT !.status = "Shutdown"]
        ELSE LET e2 == core_send(e1, Msg(REGISTER_ID, 0, request, NoId, NoId, "{}", "procedure", "none", "none"), io)
                 e3 == drop_old(e2, e2.pending_register[request])
             IN  [e3 EXCEPT !.pending_register[request] = res]

\* unregister, leaving the registration in place until UNREGISTERED
unregister_keep(e, rpc_id, res, draws, io) ==
    IF e.rpc_endpoints[rpc_id] = NoId
    THEN res_send(e, res, UnknownError)
    ELSE LET request == create_request(e, draws)
             e1 == [e EXCEPT !.pending_requests = @ \cup {request}, !.req_of[res] = request]
         IN  IF ~io
             THEN [res_send([e1 EXCEPT !.pending_requests = @ \ {request}], res, SendError)
                     EXCEPT !.status = "Shutdown"]
             ELSE LET e2 == core_send(e1, Msg(UNREGISTER_ID, 0, request, rpc_id, NoId, "", "", "none", "none"), io)
                      e3 == drop_old(e2, e2.pending_transactions[request])
                  IN  [e3 EXCEPT !.pending_transactions[request] = res]

unregister(e, rpc_id, res, draws, io) ==
    IF e.rpc_endpoints[rpc_id] = NoId
    THEN res_send(e, res, UnknownError)
    ELSE LET e0 == [e EXCEPT !.rpc_endpoints[rpc_id] = NoId]
             request == create_request(e0, draws)
             e1 == [e0 EXCEPT !.pending_requests = @ \cup {request}, !.req_of[res] = request]
         IN  IF ~io
             THEN [res_send([e1 EXCEPT !.pending_requests = @ \ {request}], res, SendError)
                     EXCEPT !.status = "Shutdown"]
             ELSE LET e2 == core_send(e1, Msg(UNREGISTER_ID, 0, request, rpc_id, NoId, "", "", "none", "none"), io)
                      e3 == drop_old(e2, e2.pending_transactions[request])
                  IN  [e3 EXCEPT !.pending_transactions[request] = res]

\* res_ok: the handler's outcome was Ok((arguments, arguments_kw)); otherwise
\* it was Err(e) and arguments is the text of e
\* invoke_yield, with the YIELD's kwargs left out
invoke_yield_no_kwargs(e, request, res_ok, arguments, arguments_kw, io) ==
    LET msg == IF res_ok
               THEN Msg(YIELD_ID, 0, request, NoId, NoId, "{}", "", arguments, "none")
               ELSE Msg(ERROR_ID, INVOCATION_ID, request, NoId, NoId, "{}",
                        "wamp.async.rs.rpc.failed", arguments, "none")
    IN  IF ~io
        THEN [e EXCEPT !.status = "Shutdown"]
        ELSE core_send(e, msg, io)

\* invoke_yield, answering only while a procedure is registered
invoke_yield_if_registered(e, request, res_ok, arguments, arguments_kw, io) ==
    LET msg == IF res_ok
               THEN Msg(YIELD_ID, 0, request, NoId, NoId, "{}", "", arguments, arguments_kw)
               ELSE Msg(ERROR_ID, INVOCATION_ID, request, NoId, NoId, "{}",
                        "wamp.async.rs.rpc.failed", arguments, "none")
    IN  IF \A g \in RegIds : e.rpc_endpoints[g] = NoId
        THEN e
        ELSE IF ~io
        THEN [e EXCEPT !.status = "Shutdown"]
        ELSE core_send(e, msg, io)

\* invoke_yield, reporting a handler's error with the request type CALL
invoke_yield_error_as_call(e, request, res_ok, arguments, arguments_kw, io) ==
    LET msg == IF res_ok
               THEN Msg(YIELD_ID, 0, request, NoId, NoId, "{}", "", arguments, arguments_kw)
               ELSE Msg(ERROR_ID, CALL_ID, request, NoId, NoId, "{}",
                        "wamp.async.rs.rpc.failed", arguments, "none")
    IN  IF ~io
        THEN [e EXCEPT !.status = "Shutdown"]
        ELSE core_send(e, msg, io)

invoke_yield(e, request, res_ok, arguments, arguments_kw, io) ==
    LET msg == IF res_ok
               THEN Msg(YIELD_ID, 0, request, NoId, NoId, "{}", "", arguments, arguments_kw)
               ELSE Msg(ERROR_ID, INVOCATION_ID, request, NoId, NoId, "{}",
                        "wamp.async.rs.rpc.failed", arguments, "none")
    IN  IF ~io
        THEN [e EXCEPT !.status = "Shutdown"]
        ELSE core_send(e, msg, io)

\* call, leaving the request id in pending_requests when the send fails
call_fail_keeps_request(e, arguments, arguments_kw, res, draws, io) ==
    LET request == create_request(e, draws)
        e1 == [e EXCEPT !.pending_requests = @ \cup {request}, !.req_of[res] = request]
    IN  IF ~io
        THEN [res_send(e1, res, SendError) EXCEPT !.status = "Shutdown"]
        ELSE LET e2 == core_send(e1, Msg(CALL_ID, 0, request, NoId, NoId, "{}", "procedure",
                                         arguments, arguments_kw), io)
                 e3 == drop_old(e2, e2.pending_call[request])
             IN  [e3 EXCEPT !.pending_call[request] = res]

call(e, arguments, arguments_kw, res, draws, io) ==
    LET request == create_request(e, draws)
        e1 == [e EXCEPT !.pending_requests = @ \cup {request}, !.req_of[res] = request]
    IN  IF ~io
        THEN [res_send([e1 EXCEPT !.pending_requests = @ \ {request}], res, SendError)
                EXCEPT !.status = "Shutdown"]
        ELSE LET e2 == core_send(e1, Msg(CALL_ID, 0, request, NoId, NoId, "{}", "procedure",
                                         arguments, arguments_kw), io)
                 e3 == drop_old(e2, e2.pending_call[request])
             IN  [e3 EXCEPT !.pending_call[request] = res]

\* leave_realm, sending GOODBYE but leaving valid_session as it is
leave_realm_stay_joined(e, res, io) ==
    IF ~io
    THEN [res_send(e, res, SendError) EXCEPT !.status = "Shutdown"]
    ELSE res_send(core_send(e, Msg(GOODBYE_ID, 0, NoId, NoId, NoId, "{}",
                                   "wamp.close.close_realm", "none", "none"), io),
                  res, ReplyOk(NoId, "none", "none"))

\* leave_realm, clearing valid_session once the GOODBYE is written
leave_realm_clear_after_send(e, res, io) ==
    IF ~io
    THEN [res_send(e, res, SendError) EXCEPT !.status = "Shutdown"]
    ELSE res_send(core_send([e EXCEPT !.valid_session = FALSE],
                            Msg(GOODBYE_ID, 0, NoId, NoId, NoId, "{}",
                                "wamp.close.close_realm", "none", "none"), io),
                  res, ReplyOk(NoId, "none", "none"))

leave_realm(e, res, io) ==
    LET e1 == [e EXCEPT !.valid_session = FALSE]
    IN  IF ~io
        THEN [res_send(e1, res, SendError) EXCEPT !.status = "Shutdown"]
        ELSE res_send(core_send(e1, Msg(GOODBYE_ID, 0, NoId, NoId, NoId, "{}",
                                        "wamp.close.close_realm", "none", "none"), io),
                      res, ReplyOk(NoId, "none", "none"))


\* join_realm up to its first core.recv(): build the details and send HELLO.
\* agent_str is Option<WampString> ("none" = None); the HELLO's args field
\* holds details["agent"] ("none" = no such entry).
join_realm(e, req, io) ==
    IF ~io
    THEN [res_send(e, req.res, SendError) EXCEPT !.status = "Shutdown"]
    ELSE [core_send(e, Msg(HELLO_ID, 0, NoId, NoId, NoId, "{roles}", "realm", req.args, "none"), io)
            EXCEPT !.pc = "joining", !.joining = req]

\* AUTHENTICATE messages written so far
NumAuthenticate(e) ==
    Cardinality({i \in DOMAIN e.sock_out : e.sock_out[i].code = AUTHENTICATE_ID})

\* Msg::Authenticate { signature, extra }: the signature is in uri, the
\* extra in details
Authenticate(signature, extra) ==
    Msg(AUTHENTICATE_ID, 0, NoId, NoId, NoId, extra, signature, "none", "none")

\* join_realm's loop, answering only the first CHALLENGE of a handshake
join_realm_recv_one_challenge(e, resp, h, io) ==
    LET res == e.joining.res
        stop(v) == [res_send([e EXCEPT !.joining = NoReq], res, v) EXCEPT !.status = "Shutdown"]
    IN  CASE resp.code = 0 -> stop(SendError)
          [] resp.code = WELCOME_ID ->
                res_send([e EXCEPT !.valid_session = TRUE, !.pc = "running", !.joining = NoReq],
                         res, ReplyOk(resp.id, resp.details, "none"))
          [] resp.code = CHALLENGE_ID ->
                IF e.joining.handler
                THEN IF h.ok
                     THEN IF io
                          THEN IF NumAuthenticate(e) = 0
                               THEN core_send(e, Authenticate(h.signature, h.extra), io)
                               ELSE e
                          ELSE stop(SendError)
                     ELSE stop(UnknownError)
                ELSE stop(UnknownError)
          [] OTHER -> stop(UnknownError)

\* join_realm's loop, reading on when a CHALLENGE finds no handler
join_realm_recv_ignore_challenge(e, resp, h, io) ==
    LET res == e.joining.res
        stop(v) == [res_send([e EXCEPT !.joining = NoReq], res, v) EXCEPT !.status = "Shutdown"]
    IN  CASE resp.code = 0 -> stop(SendError)
          [] resp.code = WELCOME_ID ->
                res_send([e EXCEPT !.valid_session = TRUE, !.pc = "running", !.joining = NoReq],
                         res, ReplyOk(resp.id, resp.details, "none"))
          [] resp.code = CHALLENGE_ID ->
                IF e.joining.handler
                THEN IF h.ok
                     THEN IF io
                          THEN core_send(e, Authenticate(h.signature, h.extra), io)
                          ELSE stop(SendError)
                     ELSE stop(UnknownError)
                ELSE e
          [] OTHER -> stop(UnknownError)

\* join_realm's loop, one core.recv() at a time.  resp is the message read
\* (code 0: recv failed); h is what the challenge handler returns for it.
join_realm_recv(e, resp, h, io) ==
    LET res == e.joining.res
        stop(v) == [res_send([e EXCEPT !.joining = NoReq], res, v) EXCEPT !.status = "Shutdown"]
    IN  CASE resp.code = 0 -> stop(SendError)
          [] resp.code = WELCOME_ID ->
                res_send([e EXCEPT !.valid_session = TRUE, !.pc = "running", !.joining = NoReq],
                         res, ReplyOk(resp.id, resp.details, "none"))
          [] resp.code = CHALLENGE_ID ->
                IF e.joining.handler
                THEN IF h.ok
                     THEN IF io
                          THEN core_send(e, Authenticate(h.signature, h.extra), io)
                          ELSE stop(SendError)
                     ELSE stop(UnknownError)
                ELSE stop(UnknownError)
          [] OTHER -> stop(UnknownError)

\* ---------------------------------------------------------------- recv.rs
subscribed(e, request, sub_id) ==
    LET res == e.pending_sub[request]
        e1 == [e EXCEPT !.pending_sub[request] = NoId]
    IN  IF res = NoId THEN e
        ELSE IF e1.subscriptions[sub_id] # NoId THEN res_drop(e1, res)
        ELSE res_send([e1 EXCEPT !.subscriptions[sub_id] = res], res,
                      ReplyOk(sub_id, "none", "none"))

unsubscribed(e, request) ==
    LET res == e.pending_transactions[request]
    IN  IF res = NoId THEN e
        ELSE res_send([e EXCEPT !.pending_transactions[request] = NoId], res,
                      ReplyOk(NoId, "none", "none"))

\* published, answering with the request id instead of the publication id
published_request(e, request, pub_id) ==
    LET res == e.pending_transactions[request]
    IN  IF res = NoId THEN e
        ELSE res_send([e EXCEPT !.pending_transactions[request] = NoId], res,
                      ReplyOk(request, "none", "none"))

published(e, request, pub_id) ==
    LET res == e.pending_transactions[request]
    IN  IF res = NoId THEN e
        ELSE res_send([e EXCEPT !.pending_transactions[request] = NoId], res,
                      ReplyOk(pub_id, "none", "none"))

\* An entry of an event queue
Event(publication, details, arguments, arguments_kw) ==
    [publication |-> publication, details |-> details,
     args |-> arguments, kwargs |-> arguments_kw]

\* event, pushing at the front of the queue
event_front(e, subscription, publication, details, arguments, arguments_kw) ==
    LET evt_q == e.subscriptions[subscription]
    IN  IF evt_q = NoId THEN e
        ELSE [e EXCEPT !.evt_queue[evt_q] =
                         <<Event(publication, details, arguments, arguments_kw)>> \o @]

event(e, subscription, publication, details, arguments, arguments_kw) ==
    LET evt_q == e.subscriptions[subscription]
    IN  IF evt_q = NoId THEN e
        ELSE [e EXCEPT !.evt_queue[evt_q] =
                         Append(@, Event(publication, details, arguments, arguments_kw))]

registered(e, request, rpc_id) ==
    LET res == e.pending_register[request]
        e1 == [e EXCEPT !.pending_register[request] = NoId]
    IN  IF res = NoId THEN e
        ELSE IF e1.rpc_endpoints[rpc_id] # NoId THEN res_drop(e1, res)
        ELSE res_send([e1 EXCEPT !.rpc_endpoints[rpc_id] = res], res,
                      ReplyOk(rpc_id, "none", "none"))

unregisterd(e, request) ==
    LET res == e.pending_transactions[request]
    IN  IF res = NoId THEN e
        ELSE res_send([e EXCEPT !.pending_transactions[request] = NoId], res,
                      ReplyOk(NoId, "none", "none"))

\* A unit of work on the RPC work channel: rpc_func_runner(ctl_channel,
\* request, rpc_func(arguments, arguments_kw))
Work(request, func, arguments, arguments_kw) ==
    [request |-> request, func |-> func, args |-> arguments, kwargs |-> arguments_kw]

invocation(e, request, registration, arguments, arguments_kw) ==
    LET rpc_func == e.rpc_endpoints[registration]
    IN  IF rpc_func = NoId THEN e
        ELSE [e EXCEPT !.rpc_event_queue =
                         Append(@, Work(request, rpc_func, arguments, arguments_kw)),
                       !.n_inv = @ + 1]

\* call_result, completing the call with the kwargs dropped
call_result_args_only(e, request, arguments, arguments_kw) ==
    LET res == e.pending_call[request]
    IN  IF res = NoId THEN e
        ELSE res_send([e EXCEPT !.pending_call[request] = NoId], res,
                      ReplyOk(NoId, arguments, "none"))

call_result(e, request, arguments, arguments_kw) ==
    LET res == e.pending_call[request]
    IN  IF res = NoId THEN e
        ELSE res_send([e EXCEPT !.pending_call[request] = NoId], res,
                      ReplyOk(NoId, arguments, arguments_kw))

\* goodbye, echoing the GOODBYE but leaving the event loop running
goodbye_stay(e, reason, io) ==
    IF ~e.valid_session /\ reason = "wamp.close.goodbye_and_out"
    THEN e
    ELSE core_send(e, Msg(GOODBYE_ID, 0, NoId, NoId, NoId, "{}",
                          "wamp.close.goodbye_and_out", "none", "none"), io)

\* goodbye, answering every GOODBYE
goodbye_always_echo(e, reason, io) ==
    [core_send(e, Msg(GOODBYE_ID, 0, NoId, NoId, NoId, "{}",
                      "wamp.close.goodbye_and_out", "none", "none"), io)
        EXCEPT !.status = "Shutdown"]

goodbye(e, reason, io) ==
    IF ~e.valid_session /\ reason = "wamp.close.goodbye_and_out"
    THEN e
    ELSE [core_send(e, Msg(GOODBYE_ID, 0, NoId, NoId, NoId, "{}",
                           "wamp.close.goodbye_and_out", "none", "none"), io)
            EXCEPT !.status = "Shutdown"]

abort(e) == [e EXCEPT !.status = "Shutdown"]

\* error, with UNSUBSCRIBE missing from the types served by pending_transactions
error_no_unsubscribe(e, typ, request, details, uri) ==
    LET err == ServerError(uri, details)
    IN  CASE typ = SUBSCRIBE_ID ->
                LET res == e.pending_sub[request]
                IN  IF res = NoId THEN e
                    ELSE res_send([e EXCEPT !.pending_sub[request] = NoId], res, err)
          [] typ = REGISTER_ID ->
                LET res == e.pending_register[request]
                IN  IF res = NoId THEN e
                    ELSE res_send([e EXCEPT !.pending_register[request] = NoId], res, err)
          [] typ = CALL_ID ->
                LET res == e.pending_call[request]
                IN  IF res = NoId THEN e
                    ELSE res_send([e EXCEPT !.pending_call[request] = NoId], res, err)
          [] typ \in {PUBLISH_ID, UNREGISTER_ID} ->
                LET res == e.pending_transactions[request]
                IN  IF res = NoId THEN e
                    ELSE res_send([e EXCEPT !.pending_transactions[request] = NoId], res, err)
          [] OTHER -> e

\* error, failing a Register but leaving its handler in pending_register
error_keeps_register(e, typ, request, details, uri) ==
    LET err == ServerError(uri, details)
    IN  CASE typ = SUBSCRIBE_ID ->
                LET res == e.pending_sub[request]
                IN  IF res = NoId THEN e
                    ELSE res_send([e EXCEPT !.pending_sub[request] = NoId], res, err)
          [] typ = REGISTER_ID ->
                LET res == e.pending_register[request]
                IN  IF res = NoId THEN e
                    ELSE res_send(e, res, err)
          [] typ = CALL_ID ->
                LET res == e.pending_call[request]
                IN  IF res = NoId THEN e
                    ELSE res_send([e EXCEPT !.pending_call[request] = NoId], res, err)
          [] typ \in {PUBLISH_ID, UNSUBSCRIBE_ID, UNREGISTER_ID} ->
                LET res == e.pending_transactions[request]
                IN  IF res = NoId THEN e
                    ELSE res_send([e EXCEPT !.pending_transactions[request] = NoId], res, err)
          [] OTHER -> e

error(e, typ, request, details, uri) ==
    LET err == ServerError(uri, details)
    IN  CASE typ = SUBSCRIBE_ID ->
                LET res == e.pending_sub[request]
                IN  IF res = NoId THEN e
                    ELSE res_send([e EXCEPT !.pending_sub[request] = NoId], res, err)
          [] typ = REGISTER_ID ->
                LET res == e.pending_register[request]
                IN  IF res = NoId THEN e
                    ELSE res_send([e EXCEPT !.pending_register[request] = NoId], res, err)
          [] typ = CALL_ID ->
                LET res == e.pending_call[request]
                IN  IF res = NoId THEN e
                    ELSE res_send([e EXCEPT !.pending_call[request] = NoId], res, err)
          [] typ \in {PUBLISH_ID, UNSUBSCRIBE_ID, UNREGISTER_ID} ->
                LET res == e.pending_transactions[request]
                IN  IF res = NoId THEN e
                    ELSE res_send([e EXCEPT !.pending_transactions[request] = NoId], res, err)
          [] OTHER -> e


\* ---------------------------------------------------------------- core/mod.rs
\* handle_peer_msg, dispatching a message whether or not its request id is
\* pending
handle_peer_msg_unchecked(e, msg, io) ==
    LET request == request_id(msg)
        e1 == IF request # NoId THEN [e EXCEPT !.pending_requests = @ \ {request}] ELSE e
    IN  CASE msg.code = SUBSCRIBED_ID -> subscribed(e1, msg.request, msg.id)
          [] msg.code = UNSUBSCRIBED_ID -> unsubscribed(e1, msg.request)
          [] msg.code = PUBLISHED_ID -> published(e1, msg.request, msg.id2)
          [] msg.code = EVENT_ID ->
                event(e1, msg.id, msg.id2, msg.details, msg.args, msg.kwargs)
          [] msg.code = REGISTERED_ID -> registered(e1, msg.request, msg.id)
          [] msg.code = UNREGISTERED_ID -> unregisterd(e1, msg.request)
          [] msg.code = INVOCATION_ID ->
                invocation(e1, msg.request, msg.id, msg.args, msg.kwargs)
          [] msg.code = RESULT_ID -> call_result(e1, msg.request, msg.args, msg.kwargs)
          [] msg.code = GOODBYE_ID -> goodbye(e1, msg.uri, io)
          [] msg.code = ABORT_ID -> abort(e1)
          [] msg.code = ERROR_ID ->
                error(e1, msg.typ, msg.request, msg.details, msg.uri)
          [] OTHER -> e1

handle_peer_msg(e, msg, io) ==
    LET request == request_id(msg)
        e1 == IF request # NoId THEN [e EXCEPT !.pending_requests = @ \ {request}] ELSE e
    IN  IF request # NoId /\ request \notin e.pending_requests THEN e
        ELSE CASE msg.code = SUBSCRIBED_ID -> subscribed(e1, msg.request, msg.id)
               [] msg.code = UNSUBSCRIBED_ID -> unsubscribed(e1, msg.request)
               [] msg.code = PUBLISHED_ID -> published(e1, msg.request, msg.id2)
               [] msg.code = EVENT_ID ->
                     event(e1, msg.id, msg.id2, msg.details, msg.args, msg.kwargs)
               [] msg.code = REGISTERED_ID -> registered(e1, msg.request, msg.id)
               [] msg.code = UNREGISTERED_ID -> unregisterd(e1, msg.request)
               [] msg.code = INVOCATION_ID ->
                     invocation(e1, msg.request, msg.id, msg.args, msg.kwargs)
               [] msg.code = RESULT_ID -> call_result(e1, msg.request, msg.args, msg.kwargs)
               [] msg.code = GOODBYE_ID -> goodbye(e1, msg.uri, io)
               [] msg.code = ABORT_ID -> abort(e1)
               [] msg.code = ERROR_ID ->
                     error(e1, msg.typ, msg.request, msg.details, msg.uri)
               [] OTHER -> e1

\* The commands that draw a request id, given the state they are handled in
draws_request(e, req) ==
    \/ req.kind \in {"Subscribe", "Publish", "Register", "Call"}
    \/ req.kind = "Unsubscribe" /\ e.subscriptions[req.id] # NoId
    \/ req.kind = "Unregister" /\ e.rpc_endpoints[req.id] # NoId

handle_local_request(e, req, draws, io) ==
    CASE req.kind = "Shutdown" -> [e EXCEPT !.status = "Shutdown"]
      [] req.kind = "Join" -> join_realm(e, req, io)
      [] req.kind = "Leave" -> leave_realm(e, req.res, io)
      [] req.kind = "Subscribe" -> subscribe(e, req.res, draws, io)
      [] req.kind = "Unsubscribe" -> unsubscribe(e, req.id, req.res, draws, io)
      [] req.kind = "Publish" -> publish(e, req.ack, req.args, req.kwargs, req.res, draws, io)
      [] req.kind = "Register" -> register(e, req.res, draws, io)
      [] req.kind = "Unregister" -> unregister(e, req.id, req.res, draws, io)
      [] req.kind = "InvocationResult" ->
            invoke_yield(e, req.id, req.ok, req.args, req.kwargs, io)
      [] req.kind = "Call" -> call(e, req.args, req.kwargs, req.res, draws, io)

\* The reply senders a queue of commands holds
queued_res(q) == {q[i].res : i \in DOMAIN q} \ {NoId}

\* The reply senders the engine's tables hold
table_res(e) ==
    ({e.pending_transactions[r] : r \in ReqIds} \cup {e.pending_sub[r] : r \in ReqIds}
     \cup {e.pending_register[r] : r \in ReqIds} \cup {e.pending_call[r] : r \in ReqIds}
     \cup {e.joining.res}) \ {NoId}

\* Core::shutdown consumes the Core: the transport is closed and every field
\* is dropped, and with it every reply sender still in a table; event_loop's
\* ctl_channel receiver is dropped after it, and with it the queued commands.
shutdown(e, q) ==
    [e EXCEPT !.pc = "terminated",
              !.pending_requests = {},
              !.pending_transactions = EmptyTable,
              !.pending_sub = EmptyTable,
              !.pending_register = EmptyTable,
              !.pending_call = EmptyTable,
              !.subscriptions = [s \in SubIds |-> NoId],
              !.rpc_endpoints = [g \in RegIds |-> NoId],
              !.joining = NoReq,
              !.res_closed = @ \cup {c \in table_res(e) \cup queued_res(q) :
                                       Len(e.res_val[c]) = 0}]

\* One turn of event_loop's loop ends: e is the state the handler left, q the
\* command channel, status the messages the turn puts on the status channel
\* when it breaks out of the loop without a Status::Shutdown.
Commit(e, q, stop, status) ==
    LET halt == stop \/ e.status = "Shutdown"
        e1 == IF halt THEN shutdown(e, q) ELSE e
    IN  /\ pc' = e1.pc
        /\ valid_session' = e1.valid_session
        /\ pending_requests' = e1.pending_requests
        /\ pending_transactions' = e1.pending_transactions
        /\ pending_sub' = e1.pending_sub
        /\ pending_register' = e1.pending_register
        /\ pending_call' = e1.pending_call
        /\ subscriptions' = e1.subscriptions
        /\ rpc_endpoints' = e1.rpc_endpoints
        /\ rpc_event_queue' = e1.rpc_event_queue
        /\ joining' = e1.joining
        /\ sock_out' = e1.sock_out
        /\ res_val' = e1.res_val
        /\ res_closed' = e1.res_closed
        /\ evt_queue' = e1.evt_queue
        /\ req_of' = e1.req_of
        /\ n_inv' = e1.n_inv
        /\ ctl_channel' = IF halt THEN <<>> ELSE q
        /\ core_res' = IF stop THEN core_res \o status
                       ELSE IF e.status = "Shutdown" THEN Append(core_res, "Ok")
                       ELSE core_res
        /\ UNCHANGED pure_vars


\* ---------------------------------------------------------------- the router
\* What an RPC handler can return: Ok((args, kwargs)), or Err(e) with the
\* text of e in args
HandlerResults ==
    {[ok |-> TRUE, args |-> p.args, kwargs |-> p.kwargs] : p \in Payloads}
    \cup {[ok |-> FALSE, args |-> "error text", kwargs |-> "none"]}
\* The (details, error uri) pairs of the ERROR messages the router sends
ErrInfos == {[details |-> "d0", uri |-> "wamp.error.no_such_procedure"],
             [details |-> "d1", uri |-> "wamp.error.not_authorized"]}
ErrTypes == {SUBSCRIBE_ID, UNSUBSCRIBE_ID, PUBLISH_ID, REGISTER_ID, UNREGISTER_ID,
             CALL_ID, INVOCATION_ID}
InvocationIds == {9}
SessionIds == {42}
GoodbyeReasons == {"wamp.close.goodbye_and_out", "wamp.close.system_shutdown"}

\* The events the router publishes: (publication, details, args, kwargs)
PeerEvents ==
    { [publication |-> 100, details |-> "d0", args |-> "a2", kwargs |-> "none"],
      [publication |-> 101, details |-> "d1", args |-> "none", kwargs |-> "k1"] }

\* What the router can send while the event loop selects
PeerMsgs ==
    {Msg(SUBSCRIBED_ID, 0, r, s, NoId, "", "", "none", "none") : r \in ReqIds, s \in SubIds}
    \cup {Msg(UNSUBSCRIBED_ID, 0, r, NoId, NoId, "", "", "none", "none") : r \in ReqIds}
    \cup {Msg(PUBLISHED_ID, 0, r, NoId, p, "", "", "none", "none") : r \in ReqIds, p \in PubIds}
    \cup {Msg(EVENT_ID, 0, NoId, s, x.publication, x.details, "", x.args, x.kwargs) :
            s \in SubIds, x \in PeerEvents}
    \cup {Msg(REGISTERED_ID, 0, r, g, NoId, "", "", "none", "none") : r \in ReqIds, g \in RegIds}
    \cup {Msg(UNREGISTERED_ID, 0, r, NoId, NoId, "", "", "none", "none") : r \in ReqIds}
    \cup {Msg(INVOCATION_ID, 0, i, g, NoId, x.details, "", x.args, x.kwargs) :
            i \in InvocationIds, g \in RegIds, x \in Payloads}
    \cup {Msg(RESULT_ID, 0, r, NoId, NoId, x.details, "", x.args, x.kwargs) :
            r \in ReqIds, x \in Payloads}
    \cup {Msg(GOODBYE_ID, 0, NoId, NoId, NoId, "{}", u, "none", "none") : u \in GoodbyeReasons}
    \cup {Msg(ABORT_ID, 0, NoId, NoId, NoId, "{}", "wamp.error.no_such_realm", "none", "none")}
    \cup {Msg(ERROR_ID, t, r, NoId, NoId, x.details, x.uri, "none", "none") :
            t \in ErrTypes, r \in ReqIds, x \in ErrInfos}
    \cup {Msg(YIELD_ID, 0, r, NoId, NoId, "{}", "", "none", "none") : r \in ReqIds}
    \cup {Msg(WELCOME_ID, 0, NoId, i, NoId, "{roles}", "", "none", "none") : i \in SessionIds}

\* What join_realm can read after HELLO; code 0 stands for a failed recv
JoinMsgs ==
    {Msg(WELCOME_ID, 0, NoId, i, NoId, "{roles}", "", "none", "none") : i \in SessionIds}
    \cup {Msg(CHALLENGE_ID, 0, NoId, NoId, NoId, "{challenge}", "ticket", "none", "none"),
          Msg(ABORT_ID, 0, NoId, NoId, NoId, "{}", "wamp.error.no_such_realm", "none", "none"),
          Msg(GOODBYE_ID, 0, NoId, NoId, NoId, "{}", "wamp.close.goodbye_and_out", "none", "none"),
          Msg(0, 0, NoId, NoId, NoId, "", "", "none", "none")}

\* What a challenge handler can return: Ok(AuthenticationChallengeResponse
\* { signature, extra }) or Err(e)
ChallengeResults ==
    {[ok |-> TRUE, signature |-> "sig1", extra |-> "{x}"],
     [ok |-> FALSE, signature |-> "", extra |-> ""]}

\* The draws WampId::generate makes for one create_request
Draws == {<<a, b>> : a \in ReqIds, b \in ReqIds}

\* ---------------------------------------------------------------- event_loop
\* event_loop entering its loop without the Running notification
EventLoopStart_silent ==
    /\ pc = "init"
    /\ pc' = "running"
    /\ UNCHANGED <<valid_session, pending_requests, pending_transactions, pending_sub,
                   pending_register, pending_call, subscriptions, rpc_endpoints,
                   rpc_event_queue, joining, sock_out, res_val, res_closed, evt_queue,
                   req_of, n_inv, ctl_channel, core_res, cmds, client_vars, pure_vars>>

\* event_loop before its loop: tell the facade the loop is running
EventLoopStart ==
    /\ pc = "init"
    /\ pc' = "running"
    /\ core_res' = Append(core_res, "Ok")
    /\ UNCHANGED <<valid_session, pending_requests, pending_transactions, pending_sub,
                   pending_register, pending_call, subscriptions, rpc_endpoints,
                   rpc_event_queue, joining, sock_out, res_val, res_closed, evt_queue,
                   req_of, n_inv, ctl_channel, cmds, client_vars, pure_vars>>

\* select!: self.recv() returned Ok(m)
RecvPeer ==
    /\ pc = "running"
    /\ \E msg \in PeerMsgs :
         /\ msg.code = EVENT_ID /\ subscriptions[msg.id] # NoId
                => Len(evt_queue[subscriptions[msg.id]]) < MaxEvents
         /\ msg.code = INVOCATION_ID => n_inv < MaxInvocations
         /\ \E io \in (IF msg.code = GOODBYE_ID THEN BOOLEAN ELSE {TRUE}) :
              Commit(handle_peer_msg(Cur, msg, io), ctl_channel, FALSE, <<>>)
    /\ UNCHANGED <<cmds, client_vars>>

\* the Err(e) arm of self.recv(), reporting e whatever valid_session is
RecvError_always_reports ==
    /\ pc = "running"
    /\ Commit(Cur, ctl_channel, TRUE, <<"Err">>)
    /\ UNCHANGED <<cmds, client_vars>>

\* select!: self.recv() returned Err(e)
RecvError ==
    /\ pc = "running"
    /\ Commit(Cur, ctl_channel, TRUE, IF valid_session THEN <<"Err">> ELSE <<>>)
    /\ UNCHANGED <<cmds, client_vars>>

\* Who holds an UnboundedSender of the command channel: the facade
\* (Client::ctl_channel), the engine itself (Core::ctl_sender) and every unit
\* of RPC work not yet driven (the clone recv::invocation gives it)
ctl_senders ==
    (IF client_pc \in {"gone", "dropped"} THEN {} ELSE {"Client"})
    \cup (IF pc = "terminated" THEN {} ELSE {"Core"})
    \cup (IF rpc_event_queue = <<>> THEN {} ELSE {"Work"})

\* select!: ctl_channel.recv() returned Some(req), or None: the channel is
\* empty and every sender is dropped
LocalRequest ==
    /\ pc = "running"
    /\ IF ctl_channel # <<>>
       THEN LET req == Head(ctl_channel)
            IN  \E draws \in (IF draws_request(Cur, req) THEN Draws ELSE {<<>>}),
                   io \in (IF req.kind = "Shutdown" THEN {TRUE} ELSE BOOLEAN) :
                  /\ draws_request(Cur, req) => create_request(Cur, draws) # NoId
                  /\ Commit(handle_local_request(Cur, req, draws, io), Tail(ctl_channel),
                            FALSE, <<>>)
       ELSE /\ ctl_senders = {}
            /\ Commit(Cur, ctl_channel, TRUE, <<"ClientDied">>)
    /\ UNCHANGED <<cmds, client_vars>>

\* join_realm, blocked in core.recv() after HELLO or AUTHENTICATE
JoinRecv ==
    /\ pc = "joining"
    /\ \E resp \in JoinMsgs :
         /\ resp.code = CHALLENGE_ID => NumAuthenticate(Cur) < MaxChallenges
         /\ \E h \in (IF resp.code = CHALLENGE_ID /\ joining.handler
                      THEN ChallengeResults
                      ELSE {CHOOSE x \in ChallengeResults : ~x.ok}),
               io \in (IF resp.code = CHALLENGE_ID /\ joining.handler THEN BOOLEAN ELSE {TRUE}) :
              Commit(join_realm_recv(Cur, resp, h, io), ctl_channel, FALSE, <<>>)
    /\ UNCHANGED <<cmds, client_vars>>

\* The application drives the next unit of work: rpc_func_runner awaits the
\* handler and posts its outcome on the command channel
RunWork ==
    /\ rpc_event_queue # <<>>
    /\ LET w == Head(rpc_event_queue)
       IN  \E out \in HandlerResults :
             ctl_channel' =
                  IF pc = "terminated" THEN ctl_channel
                  ELSE Append(ctl_channel,
                              Request("InvocationResult", NoId, w.request, FALSE,
                                      out.args, out.kwargs, out.ok, FALSE))
    /\ rpc_event_queue' = Tail(rpc_event_queue)
    /\ UNCHANGED <<pc, valid_session, pending_requests, pending_transactions, pending_sub,
                   pending_register, pending_call, subscriptions, rpc_endpoints,
                   joining, sock_out, res_val, res_closed, evt_queue, req_of, n_inv,
                   core_res, cmds, client_vars, pure_vars>>


\* ---------------------------------------------------------------- client.rs
\* Client::set_next_status; m is the Result the engine sent
set_next_status(st, m) ==
    IF m # "Ok" THEN "DisconnectedErr"
    ELSE CASE st = "NoEventLoop" -> "Running"
           [] st = "Running" -> "DisconnectedOk"
           [] OTHER -> "PanicAlreadyDisconnected"

\* The facade call panicked: "The event loop died without sending a new
\* status" or "Got new core status after already being disconnected"
IsPanic(st) == st \in {"Panic", "PanicAlreadyDisconnected"}

\* The status channel is closed once the engine and its sender are gone
StatusClosed == pc = "terminated"

\* Client::get_cur_status on status st with q on the status channel:
\* the new status and what is left on the channel
get_cur_status(st, q) ==
    IF q # <<>> THEN [st |-> set_next_status(st, Head(q)), q |-> Tail(q)]
    ELSE IF StatusClosed THEN [st |-> "Panic", q |-> q]
    ELSE [st |-> st, q |-> q]

\* Client::wait_for_status_change, once a status is there or the channel closed
wait_for_status_change(st, q) ==
    IF st \in {"DisconnectedOk", "DisconnectedErr"} THEN [st |-> st, q |-> q]
    ELSE IF q # <<>> THEN [st |-> set_next_status(st, Head(q)), q |-> Tail(q)]
    ELSE [st |-> "Panic", q |-> q]

\* The reply channel the next facade call creates
NextCmd == Cardinality({c \in Cmds : cmds[c].kind # "None"}) + 1

ClientAlive == client_pc \notin {"gone", "dropped", "panic"}

\* UnboundedSender::send on the command channel succeeds while the engine
\* holds the receiver
EngineAlive == pc # "terminated"

\* A facade call that sends one command and awaits its reply
Issue(req) ==
    /\ ClientAlive
    /\ EngineAlive
    /\ req.res \in Cmds
    /\ cmds' = [cmds EXCEPT ![req.res] = req]
    /\ ctl_channel' = Append(ctl_channel, req)
    /\ UNCHANGED <<engine_vars, core_res, client_vars, pure_vars>>

Client_subscribe ==
    Issue(Request("Subscribe", NextCmd, NoId, FALSE, "none", "none", FALSE, FALSE))

Client_unsubscribe ==
    \E sub_id \in SubIds :
        Issue(Request("Unsubscribe", NextCmd, sub_id, FALSE, "none", "none", FALSE, FALSE))

Client_publish ==
    \E acknowledge \in BOOLEAN :
        Issue(Request("Publish", NextCmd, NoId, acknowledge, "a1", "none", FALSE, FALSE))

Client_register ==
    Issue(Request("Register", NextCmd, NoId, FALSE, "none", "none", FALSE, FALSE))

Client_unregister ==
    \E rpc_id \in RegIds :
        Issue(Request("Unregister", NextCmd, rpc_id, FALSE, "none", "none", FALSE, FALSE))

Client_call ==
    Issue(Request("Call", NextCmd, NoId, FALSE, "a1", "k1", FALSE, FALSE))

\* A reply channel's await has ended: a value arrived or the sender is gone
Resolved(c) == res_val[c] # <<>> \/ c \in res_closed

\* What a facade call sees when it awaits its reply channel: the value sent,
\* or RecvError once the sender is dropped, which the facade turns into
\* Err("Core never returned a response"); Pending while neither happened
Pending == ReplyErr("Pending", "", "")
NeverReturned == ReplyErr("UnknownError", "Core never returned a response", "")
await_result(e, c) ==
    IF e.res_val[c] # <<>> THEN Head(e.res_val[c])
    ELSE IF c \in e.res_closed THEN NeverReturned
    ELSE Pending

\* What Client::publish returns, in state e, for the call that created reply
\* channel c: without acknowledge it returns Ok(None) and never awaits; with
\* it, it unwraps the Option of an Ok and rewraps an Err
publish_result(e, c) ==
    IF ~cmds[c].ack THEN ReplyOk(NoId, "none", "none")
    ELSE LET r == await_result(e, c)
         IN  IF r.ok
             THEN IF r.id = NoId THEN ReplyErr("Panic", "", "") ELSE ReplyOk(r.id, "none", "none")
             ELSE IF r \in {Pending, NeverReturned} THEN r
             ELSE ReplyErr("UnknownError", "Failed to send publish", "")

\* The configured agent strings; "" disables the advertisement
Agents == {"", "wamp_async_rs-0.3.1"}

\* HELLO messages written so far
NumHello == Cardinality({i \in DOMAIN sock_out : sock_out[i].code = HELLO_ID})

\* Client::inner_join_realm up to its await of the reply.  The Request's args
\* field is agent_str, its kwargs field remembers the configured agent.
\* max_hello bounds the HELLO messages of the run.
Client_join_upto(max_hello) ==
    /\ client_pc = "idle"
    /\ ~(core_status = "NoEventLoop" /\ core_res = <<>> /\ ~StatusClosed)
    /\ LET p1 == get_cur_status(core_status, core_res)
           p2 == IF p1.st = "NoEventLoop" THEN wait_for_status_change(p1.st, p1.q) ELSE p1
           p3 == IF IsPanic(p2.st) THEN p2 ELSE get_cur_status(p2.st, p2.q)
       IN  /\ core_status' = p3.st
           /\ core_res' = p3.q
           /\ IF IsPanic(p3.st)
              THEN client_pc' = "panic" /\ UNCHANGED <<client_res, cmds, ctl_channel>>
              ELSE IF p3.st # "Running" \/ session_id # NoId \/ ~EngineAlive
              THEN UNCHANGED <<client_pc, client_res, cmds, ctl_channel>>
              ELSE \E agent \in Agents, handler \in BOOLEAN :
                     LET req == Request("Join", MutRes, NoId, FALSE,
                                        IF agent = "" THEN agent ELSE "none",
                                        agent, FALSE, handler)
                     IN  /\ NumHello + Cardinality({i \in DOMAIN ctl_channel :
                                                      ctl_channel[i].kind = "Join"}) < max_hello
                         /\ cmds' = [cmds EXCEPT ![MutRes] = req]
                         /\ ctl_channel' = Append(ctl_channel, req)
                         /\ client_pc' = "join"
                         /\ client_res' = MutRes
    /\ UNCHANGED <<engine_vars, session_id, pure_vars>>

Client_join == Client_join_upto(MaxJoins)

\* join_realm called again by a client that has left its realm
Client_rejoin == Client_join_upto(MaxJoins + MaxRejoins)

\* inner_join_realm after the reply; the reply channel is then gone
Client_join_return ==
    /\ client_pc = "join"
    /\ Resolved(client_res)
    /\ session_id' = IF res_val[client_res] # <<>> /\ res_val[client_res][1].ok
                     THEN res_val[client_res][1].id
                     ELSE session_id
    /\ client_pc' = "idle"
    /\ client_res' = NoId
    /\ res_val' = [res_val EXCEPT ![MutRes] = <<>>]
    /\ res_closed' = res_closed \ {MutRes}
    /\ cmds' = [cmds EXCEPT ![MutRes] = NoReq]
    /\ UNCHANGED <<pc, valid_session, pending_requests, pending_transactions, pending_sub,
                   pending_register, pending_call, subscriptions, rpc_endpoints,
                   rpc_event_queue, joining, sock_out, evt_queue, req_of, n_inv,
                   ctl_channel, core_res, core_status, pure_vars>>

\* What Client::leave_realm does before it sends anything, given the status
\* st that is_connected found and the client's session id: it panics, returns
\* Err("The client is currently not connected"), returns Ok(()), or goes on
\* to send the Leave command
leave_realm_start(st, sid) ==
    IF IsPanic(st) THEN "Panic"
    ELSE IF st # "Running" THEN "NotConnected"
    ELSE IF sid = NoId THEN "Ok"
    ELSE "Send"

\* Client::leave_realm up to its await of the reply
Client_leave ==
    /\ client_pc = "idle"
    /\ LET p1 == get_cur_status(core_status, core_res)
           start == leave_realm_start(p1.st, session_id)
       IN  /\ core_status' = p1.st
           /\ core_res' = p1.q
           /\ IF start = "Panic"
              THEN client_pc' = "panic" /\ UNCHANGED <<client_res, cmds, ctl_channel, session_id>>
              ELSE IF start \in {"NotConnected", "Ok"}
              THEN UNCHANGED <<client_pc, client_res, cmds, ctl_channel, session_id>>
              ELSE /\ session_id' = NoId
                   /\ IF EngineAlive
                      THEN LET req == Request("Leave", MutRes, NoId, FALSE, "none", "none", FALSE, FALSE)
                           IN  /\ cmds' = [cmds EXCEPT ![MutRes] = req]
                               /\ ctl_channel' = Append(ctl_channel, req)
                               /\ client_pc' = "leave"
                               /\ client_res' = MutRes
                      ELSE UNCHANGED <<client_pc, client_res, cmds, ctl_channel>>
    /\ UNCHANGED <<engine_vars, pure_vars>>

\* leave_realm after the reply; the reply channel is then gone
Client_leave_return ==
    /\ client_pc = "leave"
    /\ Resolved(client_res)
    /\ client_pc' = "idle"
    /\ client_res' = NoId
    /\ res_val' = [res_val EXCEPT ![MutRes] = <<>>]
    /\ res_closed' = res_closed \ {MutRes}
    /\ cmds' = [cmds EXCEPT ![MutRes] = NoReq]
    /\ UNCHANGED <<pc, valid_session, pending_requests, pending_transactions, pending_sub,
                   pending_register, pending_call, subscriptions, rpc_endpoints,
                   rpc_event_queue, joining, sock_out, evt_queue, req_of, n_inv,
                   ctl_channel, core_res, core_status, session_id, pure_vars>>

\* Client::disconnect once its leave_realm is over: send Shutdown and give up
\* the client
Client_disconnect ==
    /\ client_pc = "idle"
    /\ session_id = NoId
    /\ LET p1 == get_cur_status(core_status, core_res)
       IN  /\ core_status' = p1.st
           /\ core_res' = p1.q
           /\ client_pc' = IF IsPanic(p1.st) THEN "panic" ELSE "gone"
           /\ ctl_channel' =
                IF p1.st = "Running" /\ EngineAlive
                THEN Append(ctl_channel, [NoReq EXCEPT !.kind = "Shutdown"])
                ELSE ctl_channel
    /\ UNCHANGED <<engine_vars, cmds, session_id, client_res, pure_vars>>

\* The application drops the Client without calling disconnect: its command
\* sender and its status receiver go away, no Shutdown is sent
Client_drop ==
    /\ client_pc = "idle"
    /\ client_pc' = "dropped"
    /\ UNCHANGED <<engine_vars, ctl_channel, core_res, cmds, core_status, session_id,
                   client_res, pure_vars>>

Next ==
    \/ EventLoopStart
    \/ RecvPeer
    \/ RecvError
    \/ LocalRequest
    \/ JoinRecv
    \/ RunWork
    \/ Client_subscribe
    \/ Client_unsubscribe
    \/ Client_publish
    \/ Client_register
    \/ Client_unregister
    \/ Client_call
    \/ Client_join
    \/ Client_join_return
    \/ Client_leave
    \/ Client_leave_return
    \/ Client_disconnect
    \/ Client_drop

Spec == Init /\ [][Next]_vars

\* ---------------------------------------------------------------- usage profiles
\* The state a default-configured client is in once connect and join_realm
\* have returned Ok: the event loop runs, HELLO was written, WELCOME was read.
InitJoined ==
    /\ pc = "running"
    /\ valid_session = TRUE
    /\ pending_requests = {}
    /\ pending_transactions = EmptyTable
    /\ pending_sub = EmptyTable
    /\ pending_register = EmptyTable
    /\ pending_call = EmptyTable
    /\ subscriptions = [s \in SubIds |-> NoId]
    /\ rpc_endpoints = [g \in RegIds |-> NoId]
    /\ rpc_event_queue = <<>>
    /\ ctl_channel = <<>>
    /\ joining = NoReq
    /\ sock_out = <<Msg(HELLO_ID, 0, NoId, NoId, NoId, "{roles}", "realm", "none", "none")>>
    /\ core_res = <<>>
    /\ res_val = [c \in Chans |-> <<>>]
    /\ res_closed = {}
    /\ evt_queue = [c \in Cmds |-> <<>>]
    /\ cmds = [c \in Chans |-> NoReq]
    /\ req_of = [c \in Chans |-> NoId]
    /\ n_inv = 0
    /\ core_status = "Running"
    /\ session_id \in SessionIds
    /\ client_pc = "idle"
    /\ client_res = NoId
    /\ call_arg = <<>>
    /\ call_ret = <<>>

\* A joined client that publishes and subscribes
NextPubSub ==
    \/ RecvPeer
    \/ RecvError
    \/ LocalRequest
    \/ Client_subscribe
    \/ Client_unsubscribe
    \/ Client_publish

SpecPubSub == InitJoined /\ [][NextPubSub]_vars

\* A joined client that registers procedures and calls
NextRpc ==
    \/ RecvPeer
    \/ RecvError
    \/ LocalRequest
    \/ RunWork
    \/ Client_register
    \/ Client_unregister
    \/ Client_call

SpecRpc == InitJoined /\ [][NextRpc]_vars

\* A joined client that uses every command
NextJoined ==
    \/ RecvPeer
    \/ RecvError
    \/ LocalRequest
    \/ RunWork
    \/ Client_subscribe
    \/ Client_unsubscribe
    \/ Client_publish
    \/ Client_register
    \/ Client_unregister
    \/ Client_call

SpecJoined == InitJoined /\ [][NextJoined]_vars

\* A client from construction on: joining, leaving, disconnecting, and
\* subscribing at any point in between
NextSession ==
    \/ EventLoopStart
    \/ RecvPeer
    \/ RecvError
    \/ LocalRequest
    \/ JoinRecv
    \/ Client_subscribe
    \/ Client_join
    \/ Client_join_return
    \/ Client_leave
    \/ Client_leave_return
    \/ Client_disconnect

SpecSession == Init /\ [][NextSession]_vars

\* A client from construction on that joins, leaves and disconnects while the
\* router only takes part in the handshake
NextJoin ==
    \/ EventLoopStart
    \/ RecvError
    \/ LocalRequest
    \/ JoinRecv
    \/ Client_join
    \/ Client_join_return
    \/ Client_leave
    \/ Client_leave_return
    \/ Client_disconnect

SpecJoin == Init /\ [][NextJoin]_vars

\* A joined client that subscribes and registers and is dropped at some
\* point.  The executor keeps polling the event loop: a command that sits on
\* the command channel, or a closed command channel, is served; the router
\* and the transport are free to stay silent.
NextDropped ==
    \/ RecvPeer
    \/ RecvError
    \/ LocalRequest
    \/ RunWork
    \/ Client_subscribe
    \/ Client_register
    \/ Client_drop

SpecDropped == InitJoined /\ [][NextDropped]_vars /\ WF_vars(LocalRequest)


\* The state of a default-configured client once connect, join_realm and
\* leave_realm have returned Ok: HELLO and GOODBYE(wamp.close.close_realm)
\* were written, the router's answer to the GOODBYE is still to come.
InitLeft ==
    /\ pc = "running"
    /\ valid_session = FALSE
    /\ pending_requests = {}
    /\ pending_transactions = EmptyTable
    /\ pending_sub = EmptyTable
    /\ pending_register = EmptyTable
    /\ pending_call = EmptyTable
    /\ subscriptions = [s \in SubIds |-> NoId]
    /\ rpc_endpoints = [g \in RegIds |-> NoId]
    /\ rpc_event_queue = <<>>
    /\ ctl_channel = <<>>
    /\ joining = NoReq
    /\ sock_out = <<Msg(HELLO_ID, 0, NoId, NoId, NoId, "{roles}", "realm", "none", "none"),
                    Msg(GOODBYE_ID, 0, NoId, NoId, NoId, "{}", "wamp.close.close_realm",
                        "none", "none")>>
    /\ core_res = <<>>
    /\ res_val = [c \in Chans |-> <<>>]
    /\ res_closed = {}
    /\ evt_queue = [c \in Cmds |-> <<>>]
    /\ cmds = [c \in Chans |-> NoReq]
    /\ req_of = [c \in Chans |-> NoId]
    /\ n_inv = 0
    /\ core_status = "Running"
    /\ session_id = NoId
    /\ client_pc = "idle"
    /\ client_res = NoId
    /\ call_arg = <<>>
    /\ call_ret = <<>>

\* A client that has left its realm and joins again, while the router sends
\* what it likes
NextRejoin ==
    \/ RecvPeer
    \/ RecvError
    \/ LocalRequest
    \/ JoinRecv
    \/ Client_rejoin
    \/ Client_join_return

SpecRejoin == InitLeft /\ [][NextRejoin]_vars

\* ---------------------------------------------------------------- common.rs
\* A &str is the sequence of its chars, a char a string of length one.
\* char::is_lowercase and char::is_alphanumeric on the chars used here
LowerChars == {"a", "b", "c", "d", "e", "f", "g", "h", "i", "j", "k", "l", "m",
               "n", "o", "p", "q", "r", "s", "t", "u", "v", "w", "x", "y", "z"}
UpperChars == {"U"}
DigitChars == {"1"}
is_lowercase(c) == c \in LowerChars
is_alphanumeric(c) == c \in LowerChars \cup UpperChars \cup DigitChars

\* str::starts_with
starts_with(str, prefix) ==
    Len(str) >= Len(prefix) /\ SubSeq(str, 1, Len(prefix)) = prefix

\* The for loop of is_valid_strict_uri from index i on (1-based), with
\* num_chars_token as the loop left it
RECURSIVE strict_uri_loop(_, _, _)
strict_uri_loop(uri, i, num_chars_token) ==
    IF i > Len(uri) THEN TRUE
    ELSE LET c == uri[i]
         IN  IF c = "." /\ num_chars_token = 0 THEN FALSE
             ELSE LET n == IF c = "." THEN 0 ELSE num_chars_token + 1
                  IN  IF c = "_" THEN strict_uri_loop(uri, i + 1, n)
                      ELSE IF ~is_lowercase(c) THEN FALSE
                      ELSE IF ~is_alphanumeric(c) THEN FALSE
                      ELSE strict_uri_loop(uri, i + 1, n)

is_valid_strict_uri(in_uri) ==
    IF starts_with(in_uri, <<"w", "a", "m", "p", ".">>) THEN FALSE
    ELSE strict_uri_loop(in_uri, 1, 0)

\* The URIs is_valid_strict_uri is called with: every string of at most
\* MaxUriLen chars over a lowercase letter, a digit, an uppercase letter,
\* '_', '.', '!', and five longer ones
UriChars == {"a", "1", "U", "_", ".", "!"}
Uris ==
    UNION {[1 .. n -> UriChars] : n \in 0 .. MaxUriLen}
    \cup {<<"c", "o", "m", ".", "e", "x", "a", "m", "p", "l", "e", ".", "t", "o", "p", "i", "c", "_", "o", "n", "e">>,
          <<"w", "a", "m", "p", ".", "x">>,
          <<"w", "a", "m", "p">>,
          <<"U", "p", "p", "e", "r", ".", "c", "a", "s", "e">>,
          <<"f", "o", "o", "!", "b", "a", "r">>}

\* The application calls is_valid_strict_uri on a URI of its choice
InitUri ==
    /\ Idle
    /\ call_arg \in {<<u>> : u \in Uris}
    /\ call_ret = <<>>

Call_is_valid_strict_uri ==
    /\ call_arg # <<>>
    /\ call_ret = <<>>
    /\ call_ret' = <<is_valid_strict_uri(call_arg[1])>>
    /\ UNCHANGED <<engine_vars, ctl_channel, core_res, cmds, client_vars, call_arg>>

NextUri == Call_is_valid_strict_uri

SpecUri == InitUri /\ [][NextUri]_vars

\* ---------------------------------------------------------------- message.rs
\* The 22 message codes
MsgCodes ==
    {HELLO_ID, WELCOME_ID, ABORT_ID, CHALLENGE_ID, AUTHENTICATE_ID, GOODBYE_ID, ERROR_ID,
     PUBLISH_ID, PUBLISHED_ID, SUBSCRIBE_ID, SUBSCRIBED_ID, UNSUBSCRIBE_ID, UNSUBSCRIBED_ID,
     EVENT_ID, CALL_ID, RESULT_ID, REGISTER_ID, REGISTERED_ID, UNREGISTER_ID,
     UNREGISTERED_ID, INVOCATION_ID, YIELD_ID}

\* A message with every field at the value it has when the kind does not
\* carry it
Blank(code) == Msg(code, 0, NoId, NoId, NoId, "", "", "none", "none")

\* impl Serialize for Msg: the fields each arm puts in its tuple after the
\* message code and before the optional arguments, in the arm's order.
\* Field names are those of Msg above: realm, reason, error, topic,
\* procedure, authentication_method and signature are uri; options and extra
\* are details; session, subscription and registration are id; publication
\* is id2.
SerFields(code) ==
    CASE code = HELLO_ID -> <<"uri", "details">>
      [] code = WELCOME_ID -> <<"id", "details">>
      [] code = ABORT_ID -> <<"details", "uri">>
      [] code = CHALLENGE_ID -> <<"uri", "details">>
      [] code = AUTHENTICATE_ID -> <<"uri", "details">>
      [] code = GOODBYE_ID -> <<"details", "uri">>
      [] code = ERROR_ID -> <<"typ", "request", "details", "uri">>
      [] code = PUBLISH_ID -> <<"request", "details", "uri">>
      [] code = PUBLISHED_ID -> <<"request", "id2">>
      [] code = SUBSCRIBE_ID -> <<"request", "details", "uri">>
      [] code = SUBSCRIBED_ID -> <<"request", "id">>
      [] code = UNSUBSCRIBE_ID -> <<"request", "id">>
      [] code = UNSUBSCRIBED_ID -> <<"request">>
      [] code = EVENT_ID -> <<"id", "id2", "details">>
      [] code = CALL_ID -> <<"request", "details", "uri">>
      [] code = RESULT_ID -> <<"request", "details">>
      [] code = REGISTER_ID -> <<"request", "details", "uri">>
      [] code = REGISTERED_ID -> <<"request", "id">>
      [] code = UNREGISTER_ID -> <<"request", "id">>
      [] code = UNREGISTERED_ID -> <<"request">>
      [] code = INVOCATION_ID -> <<"request", "id", "details">>
      [] code = YIELD_ID -> <<"request", "details">>

\* The arms of serialize that end with the optional arguments
SerOptional == {ERROR_ID, PUBLISH_ID, EVENT_ID, CALL_ID, RESULT_ID, INVOCATION_ID, YIELD_ID}

\* The end of such an arm's tuple, with kwargs put before args
trailing_kwargs_first(arguments, arguments_kw) ==
    IF arguments_kw # "none"
    THEN <<arguments_kw, IF arguments = "none" THEN "[]" ELSE arguments>>
    ELSE IF arguments # "none" THEN <<arguments>>
    ELSE <<>>

\* The end of such an arm's tuple, with no placeholder for absent args
trailing_no_placeholder(arguments, arguments_kw) ==
    IF arguments_kw # "none"
    THEN IF arguments = "none" THEN <<arguments_kw>> ELSE <<arguments, arguments_kw>>
    ELSE IF arguments # "none" THEN <<arguments>>
    ELSE <<>>

\* The end of such an arm's tuple: arguments.as_ref().unwrap_or(&WampArgs::new())
\* and arguments_kw if there are kwargs, else arguments if there are, else
\* nothing.  "[]" is the empty WampArgs.
trailing(arguments, arguments_kw) ==
    IF arguments_kw # "none"
    THEN <<IF arguments = "none" THEN "[]" ELSE arguments, arguments_kw>>
    ELSE IF arguments # "none" THEN <<arguments>>
    ELSE <<>>

\* impl Serialize for Msg: the positional tuple of a message
serialize(m) ==
    <<m.code>>
    \o [i \in 1 .. Len(SerFields(m.code)) |-> m[SerFields(m.code)[i]]]
    \o (IF m.code \in SerOptional THEN trailing(m.args, m.kwargs) ELSE <<>>)

\* impl Deserialize for Msg: the fields each de_ function reads with
\* next_element()?.ok_or_else(missing_field), in its order
DeFields(msg_id) ==
    CASE msg_id = HELLO_ID -> <<"uri", "details">>
      [] msg_id = WELCOME_ID -> <<"id", "details">>
      [] msg_id = ABORT_ID -> <<"details", "uri">>
      [] msg_id = CHALLENGE_ID -> <<"uri", "details">>
      [] msg_id = AUTHENTICATE_ID -> <<"uri", "details">>
      [] msg_id = GOODBYE_ID -> <<"details", "uri">>
      [] msg_id = ERROR_ID -> <<"typ", "request", "details", "uri">>
      [] msg_id = PUBLISH_ID -> <<"request", "details", "uri">>
      [] msg_id = PUBLISHED_ID -> <<"request", "id2">>
      [] msg_id = SUBSCRIBE_ID -> <<"request", "details", "uri">>
      [] msg_id = SUBSCRIBED_ID -> <<"request", "id">>
      [] msg_id = UNSUBSCRIBE_ID -> <<"request", "id">>
      [] msg_id = UNSUBSCRIBED_ID -> <<"request">>
      [] msg_id = EVENT_ID -> <<"id", "id2", "details">>
      [] msg_id = CALL_ID -> <<"request", "details", "uri">>
      [] msg_id = RESULT_ID -> <<"request", "details">>
      [] msg_id = REGISTER_ID -> <<"request", "details", "uri">>
      [] msg_id = REGISTERED_ID -> <<"request", "id">>
      [] msg_id = UNREGISTER_ID -> <<"request", "id">>
      [] msg_id = UNREGISTERED_ID -> <<"request">>
      [] msg_id = INVOCATION_ID -> <<"request", "id", "details">>
      [] msg_id = YIELD_ID -> <<"request", "details">>

\* The de_ functions that go on to read arguments and arguments_kw with
\* next_element()?.unwrap_or(None)
DeOptional == {ERROR_ID, PUBLISH_ID, EVENT_ID, CALL_ID, RESULT_ID, INVOCATION_ID, YIELD_ID}

\* What deserialize returns: Ok(msg) or Err(..)
DeOk(m) == [ok |-> TRUE, msg |-> m]
DeErr == [ok |-> FALSE, msg |-> Blank(0)]

\* impl Deserialize for Msg, MsgVisitor::visit_seq on the elements v of a
\* sequence
deserialize(v) ==
    IF v = <<>> THEN DeErr
    ELSE IF v[1] \notin MsgCodes THEN DeErr
    ELSE LET msg_id == v[1]
             fields == DeFields(msg_id)
             n == Len(fields)
             opt == msg_id \in DeOptional
         IN  IF Len(v) < 1 + n THEN DeErr
             ELSE DeOk([f \in DOMAIN Blank(msg_id) |->
                          IF \E i \in 1 .. n : fields[i] = f
                          THEN v[1 + (CHOOSE i \in 1 .. n : fields[i] = f)]
                          ELSE IF f = "args" /\ opt /\ Len(v) >= n + 2 THEN v[n + 2]
                          ELSE IF f = "kwargs" /\ opt /\ Len(v) >= n + 3 THEN v[n + 3]
                          ELSE Blank(msg_id)[f]])

\* The messages handed to serialize: one of every kind, the kinds with
\* optional arguments with every combination of absent, empty and non-empty
\* args with absent and present kwargs
CodecArgs == {"none", "[]", "a2"}
CodecKwArgs == {"none", "k1"}
CodecMsgs ==
    UNION {{[[f \in DOMAIN Blank(code) |->
                IF \E i \in DOMAIN SerFields(code) : SerFields(code)[i] = f
                THEN CASE f = "typ" -> CALL_ID
                       [] f \in {"request", "id"} -> 7
                       [] f = "id2" -> 100
                       [] f = "details" -> "{d}"
                       [] f = "uri" -> "u"
                ELSE Blank(code)[f]] EXCEPT !.args = x[1], !.kwargs = x[2]] :
              x \in (IF code \in SerOptional THEN CodecArgs \X CodecKwArgs
                                            ELSE {<<"none", "none">>})} :
           code \in MsgCodes}

\* The sequences handed to deserialize that serialize did not produce: the
\* empty one and some whose first element is not a message code
UnknownCodes == {0, 7, 9, 49, 69, 71}
WireTuples == {<<>>} \cup {<<c, 7, "{d}", "u">> : c \in UnknownCodes}

\* A message is packed and what was packed is unpacked, or a sequence read
\* from the transport is unpacked
InitCodec ==
    /\ Idle
    /\ call_arg \in {<<"pack", m>> : m \in CodecMsgs} \cup {<<"unpack", v>> : v \in WireTuples}
    /\ call_ret = <<>>

Call_serialize ==
    /\ call_arg # <<>>
    /\ call_arg[1] = "pack"
    /\ call_ret = <<>>
    /\ call_ret' = <<serialize(call_arg[2])>>
    /\ UNCHANGED <<engine_vars, ctl_channel, core_res, cmds, client_vars, call_arg>>

Call_deserialize ==
    /\ call_arg # <<>>
    /\ \/ call_arg[1] = "pack" /\ Len(call_ret) = 1
          /\ call_ret' = <<call_ret[1], deserialize(call_ret[1])>>
       \/ call_arg[1] = "unpack" /\ call_ret = <<>>
          /\ call_ret' = <<call_arg[2], deserialize(call_arg[2])>>
    /\ UNCHANGED <<engine_vars, ctl_channel, core_res, cmds, client_vars, call_arg>>

NextCodec ==
    \/ Call_serialize
    \/ Call_deserialize

SpecCodec == InitCodec /\ [][NextCodec]_vars

\* ================================================================ claims
\* The commands that expect a reply on their reply channel
ExpectsReply(c) ==
    /\ cmds[c].kind \in {"Subscribe", "Unsubscribe", "Register", "Unregister", "Call", "Publish"}
    /\ cmds[c].kind = "Publish" => cmds[c].ack

\* The engine has handled the command of reply channel c: it drew a request
\* id for it or answered it at once
Handled(c) == req_of[c] # NoId \/ res_val[c] # <<>>

\* The keys of a pending table
Keys(table) == {r \in ReqIds : table[r] # NoId}

\* ---------------------------------------------------------------- C1
\* C1: every Subscribe, Unsubscribe, Register, Unregister, Call or acknowledged
\* Publish the engine has handled gets exactly one value on its reply channel:
\* never two, and never zero once the engine has terminated.
C1_ExactlyOneReply ==
    \A c \in Cmds :
        ExpectsReply(c) /\ Handled(c) =>
            /\ Len(res_val[c]) <= 1
            /\ pc = "terminated" => Len(res_val[c]) = 1

\* ---------------------------------------------------------------- C2
\* C2: whenever the engine waits in its select, each id of pending_requests
\* is a key of exactly one of the four pending tables and every key of those
\* tables is in pending_requests.
C2_PendingTablesAgree ==
    pc = "running" =>
        /\ \A r \in pending_requests :
             Cardinality({t \in {"transactions", "sub", "register", "call"} :
                            r \in Keys(CASE t = "transactions" -> pending_transactions
                                         [] t = "sub" -> pending_sub
                                         [] t = "register" -> pending_register
                                         [] t = "call" -> pending_call)}) = 1
        /\ Keys(pending_transactions) \cup Keys(pending_sub) \cup Keys(pending_register)
             \cup Keys(pending_call) \subseteq pending_requests

\* ---------------------------------------------------------------- C3
\* C3: when the engine terminates, every reply channel still stored in a
\* pending table receives an error value, so the facade call awaiting it
\* returns an error.
C3_TerminationFailsPending ==
    [][pc = "running" /\ pc' = "terminated" =>
         \A c \in table_res(Cur) :
             /\ Len(res_val'[c]) = 1
             /\ ~res_val'[c][1].ok]_vars
\* ---------------------------------------------------------------- C4
\* The pending tables of a handler's state
Tables(e) == <<e.pending_requests, e.pending_transactions, e.pending_sub,
               e.pending_register, e.pending_call>>

\* C4: while valid_session is false, handling a Subscribe, Unsubscribe,
\* Publish, Register, Unregister or Call command completes its reply with an
\* error, writes nothing on the transport and adds no pending entry.
C4_UnjoinedCommandsRejected ==
    (/\ pc = "running"
     /\ ~valid_session
     /\ ctl_channel # <<>>
     /\ Head(ctl_channel).kind \in {"Subscribe", "Unsubscribe", "Publish",
                                    "Register", "Unregister", "Call"})
    => LET req == Head(ctl_channel)
       IN  \A draws \in Draws :
             create_request(Cur, draws) # NoId =>
             LET e2 == handle_local_request(Cur, req, draws, TRUE)
             IN  /\ Len(e2.res_val[req.res]) = 1
                 /\ ~e2.res_val[req.res][1].ok
                 /\ e2.sock_out = sock_out
                 /\ Tables(e2) = Tables(Cur)
                 /\ e2.status = "Ok"
\* ---------------------------------------------------------------- C5
\* The entry an EVENT message puts on an event queue
EventOf(msg) == Event(msg.id2, msg.details, msg.args, msg.kwargs)

\* C5: an EVENT received for a subscription id in subscriptions appends
\* exactly its own (publication, details, args, kwargs) at the end of that
\* subscription's queue and leaves every other queue alone; and no step ever
\* removes, reorders or rewrites what a queue already holds.
C5_EventsInOrder ==
    [][/\ \A msg \in PeerMsgs :
            msg.code = EVENT_ID /\ pc = "running" /\ subscriptions[msg.id] # NoId =>
                LET e2 == handle_peer_msg(Cur, msg, TRUE)
                    q == subscriptions[msg.id]
                IN  e2.evt_queue = [evt_queue EXCEPT ![q] = Append(@, EventOf(msg))]
       /\ \A q \in Cmds :
            /\ Len(evt_queue[q]) <= Len(evt_queue'[q])
            /\ SubSeq(evt_queue'[q], 1, Len(evt_queue[q])) = evt_queue[q]]_vars

\* Two different events sit on one queue, in an order the router chose
C5_Witness ==
    \E q \in Cmds :
        /\ Len(evt_queue[q]) = 2
        /\ evt_queue[q][1].publication = 101
        /\ evt_queue[q][2].publication = 100

\* ---------------------------------------------------------------- C6
\* Reply channel q carried Ok((sub_id, receiver)) for a Subscribe: q names the
\* receiver returned for that subscription
IsQueue(q) == cmds[q].kind = "Subscribe" /\ res_val[q] # <<>> /\ res_val[q][1].ok
\* q is the queue of a subscription id in subscriptions
Current(subs, q) == \E s \in SubIds : subs[s] = q

\* C6: handling an Unsubscribe for s takes s out of subscriptions; and once
\* a returned receiver's queue is out of subscriptions no later step puts an
\* event on it or puts it back.
C6_NoEventAfterUnsubscribe ==
    [][/\ (pc = "running" /\ ctl_channel # <<>> /\ Head(ctl_channel).kind = "Unsubscribe") =>
            \A draws \in Draws, io \in BOOLEAN :
                create_request(Cur, draws) # NoId =>
                    handle_local_request(Cur, Head(ctl_channel), draws, io)
                        .subscriptions[Head(ctl_channel).id] = NoId
       /\ \A q \in Cmds :
            IsQueue(q) /\ ~Current(subscriptions, q) =>
                /\ evt_queue'[q] = evt_queue[q]
                /\ ~Current(subscriptions', q)]_vars

\* A subscription got an event, was unsubscribed with Ok, and the engine is
\* still reading what the router sends
C6_Witness ==
    \E q, u \in Cmds :
        /\ IsQueue(q) /\ ~Current(subscriptions, q)
        /\ evt_queue[q] # <<>>
        /\ cmds[u].kind = "Unsubscribe" /\ cmds[u].id = res_val[q][1].id
        /\ res_val[u] # <<>> /\ res_val[u][1].ok
        /\ pc = "running"

ResultsFor(r) == {msg \in PeerMsgs : msg.code = RESULT_ID /\ msg.request = r}

\* C8: for a Call with reply channel c whose request id r is in
\* pending_requests and in pending_call, a RESULT(r, details, args, kwargs)
\* sends Ok((args, kwargs)) on c and nothing else anywhere, takes r out of
\* pending_call and pending_requests and keeps the engine running; a RESULT
\* for r handled after that leaves the whole state as it is.
C8_CallResult ==
    \A r \in ReqIds :
        (pc = "running" /\ r \in pending_requests /\ pending_call[r] # NoId) =>
            \A msg \in ResultsFor(r) :
                LET c == pending_call[r]
                    e2 == handle_peer_msg(Cur, msg, TRUE)
                IN  /\ cmds[c].kind = "Call"
                    /\ e2.res_val = [res_val EXCEPT ![c] = <<ReplyOk(NoId, msg.args, msg.kwargs)>>]
                    /\ e2.res_closed = res_closed
                    /\ e2.pending_call = [pending_call EXCEPT ![r] = NoId]
                    /\ e2.pending_requests = pending_requests \ {r}
                    /\ e2.status = "Ok"
                    /\ \A late \in ResultsFor(r) : handle_peer_msg(e2, late, TRUE) = e2

\* A call was completed with the args and kwargs of its RESULT and the engine
\* is still reading what the router sends
C8_Witness ==
    \E c \in Cmds :
        /\ cmds[c].kind = "Call"
        /\ res_val[c] = <<ReplyOk(NoId, "a2", "k1")>>
        /\ req_of[c] \notin pending_requests
        /\ pc = "running"

\* ---------------------------------------------------------------- C9
\* The command kind an ERROR's request type names, and the table its
\* requests wait in
KindOf(typ) ==
    CASE typ = SUBSCRIBE_ID -> "Subscribe"
      [] typ = UNSUBSCRIBE_ID -> "Unsubscribe"
      [] typ = PUBLISH_ID -> "Publish"
      [] typ = REGISTER_ID -> "Register"
      [] typ = UNREGISTER_ID -> "Unregister"
      [] typ = CALL_ID -> "Call"
      [] OTHER -> "None"
TableOf(e, kind) ==
    CASE kind = "Subscribe" -> e.pending_sub
      [] kind = "Register" -> e.pending_register
      [] kind = "Call" -> e.pending_call
      [] OTHER -> e.pending_transactions

\* C9: an ERROR(typ, req, details, uri) whose typ names one of the six
\* command kinds, whose req is in pending_requests and whose req is, in the
\* table of that kind, the request of a command of that kind, sends
\* ServerError(uri, details) on that command's reply channel and nothing on
\* any other, removes req from that table and from pending_requests, leaves
\* the other tables alone and keeps the engine running.
C9_ErrorFailsRequest ==
    \A msg \in PeerMsgs :
        LET kind == KindOf(msg.typ)
            c == TableOf(Cur, kind)[msg.request]
        IN  (/\ pc = "running"
             /\ msg.code = ERROR_ID
             /\ kind # "None"
             /\ msg.request \in pending_requests
             /\ c # NoId
             /\ cmds[c].kind = kind)
            => LET e2 == handle_peer_msg(Cur, msg, TRUE)
               IN  /\ e2.res_val = [res_val EXCEPT ![c] = <<ServerError(msg.uri, msg.details)>>]
                   /\ e2.res_closed = res_closed
                   /\ TableOf(e2, kind) = [TableOf(Cur, kind) EXCEPT ![msg.request] = NoId]
                   /\ \A other \in {"Subscribe", "Register", "Call", "Publish"} :
                        TableOf(Cur, other) # TableOf(Cur, kind) =>
                            TableOf(e2, other) = TableOf(Cur, other)
                   /\ e2.pending_requests = pending_requests \ {msg.request}
                   /\ e2.status = "Ok"
                   /\ e2.pc = "running"

\* An Unsubscribe was failed with the uri and details of its ERROR and the
\* engine is still running
C9_Witness ==
    \E c \in Cmds :
        /\ cmds[c].kind = "Unsubscribe"
        /\ res_val[c] = <<ServerError("wamp.error.not_authorized", "d1")>>
        /\ req_of[c] \notin pending_requests
        /\ pc = "running"

\* ---------------------------------------------------------------- C10
\* C10: an INVOCATION(req, reg) received while reg is in rpc_endpoints puts
\* exactly one unit of work, for req and reg's handler, on the RPC work
\* channel; driving a unit of work posts exactly one InvocationResult for
\* its req; and handling an InvocationResult whose outcome is Ok((a, kw))
\* writes exactly one message, the YIELD for req with args a and kwargs kw.
C10_InvocationYields ==
    [][/\ \A msg \in PeerMsgs :
            (pc = "running" /\ msg.code = INVOCATION_ID /\ rpc_endpoints[msg.id] # NoId) =>
                handle_peer_msg(Cur, msg, TRUE).rpc_event_queue =
                    Append(rpc_event_queue,
                           Work(msg.request, rpc_endpoints[msg.id], msg.args, msg.kwargs))
       /\ (rpc_event_queue # <<>> /\ rpc_event_queue' = Tail(rpc_event_queue)
             /\ pc # "terminated" /\ pc' # "terminated") =>
            /\ Len(ctl_channel') = Len(ctl_channel) + 1
            /\ SubSeq(ctl_channel', 1, Len(ctl_channel)) = ctl_channel
            /\ ctl_channel'[Len(ctl_channel')].kind = "InvocationResult"
            /\ ctl_channel'[Len(ctl_channel')].id = Head(rpc_event_queue).request
       /\ (pc = "running" /\ ctl_channel # <<>>
             /\ Head(ctl_channel).kind = "InvocationResult" /\ Head(ctl_channel).ok) =>
            LET req == Head(ctl_channel)
            IN  handle_local_request(Cur, req, <<>>, TRUE).sock_out =
                    Append(sock_out, Msg(YIELD_ID, 0, req.id, NoId, NoId, "{}", "",
                                         req.args, req.kwargs))]_vars

\* The handler's Ok(("a2", "k1")) went out as the YIELD of invocation 9, and
\* nothing else was written for it
C10_Witness ==
    /\ \E i \in DOMAIN sock_out :
         sock_out[i] = Msg(YIELD_ID, 0, 9, NoId, NoId, "{}", "", "a2", "k1")
    /\ Cardinality({i \in DOMAIN sock_out :
                      sock_out[i].code \in {YIELD_ID, ERROR_ID}}) = 1
    /\ n_inv = 1

\* ---------------------------------------------------------------- C11
\* The GOODBYE the engine echoes
GoodbyeAndOut ==
    Msg(GOODBYE_ID, 0, NoId, NoId, NoId, "{}", "wamp.close.goodbye_and_out", "none", "none")

\* What a terminated engine can no longer change: its tables, the transport,
\* the event queues, the RPC work it hands out, the status channel
Frozen(e) ==
    <<e.pc, e.valid_session, Tables(e), e.subscriptions, e.rpc_endpoints, e.sock_out,
      e.evt_queue, e.req_of, e.n_inv>>

\* C11: a GOODBYE, whatever its reason, read by the event loop while
\* valid_session is true writes exactly one message, the GOODBYE with empty
\* details and reason wamp.close.goodbye_and_out, and returns
\* Status::Shutdown; the step that writes that GOODBYE terminates the engine
\* and empties the command channel; a terminated engine handles nothing: its
\* state, the transport and the status channel stay as they are and no
\* command is queued for it.  join_realm never reads a GOODBYE while
\* valid_session is true.
C11_GoodbyeEchoAndStop ==
    [][/\ (pc = "running" /\ valid_session) =>
            \A msg \in PeerMsgs : msg.code = GOODBYE_ID =>
                LET e2 == handle_peer_msg(Cur, msg, TRUE)
                IN  /\ e2.status = "Shutdown"
                    /\ e2 = [Cur EXCEPT !.sock_out = Append(sock_out, GoodbyeAndOut),
                                         !.status = "Shutdown"]
       /\ (pc = "running" /\ valid_session /\ sock_out' = Append(sock_out, GoodbyeAndOut)) =>
            /\ pc' = "terminated"
            /\ ctl_channel' = <<>>
            /\ Len(core_res') = Len(core_res) + 1
            /\ core_res'[Len(core_res')] = "Ok"
       /\ pc = "terminated" =>
            /\ Frozen(Cur)' = Frozen(Cur)
            /\ Len(rpc_event_queue') <= Len(rpc_event_queue)
            /\ ctl_channel' = <<>> /\ ctl_channel = <<>>
            /\ Len(core_res') <= Len(core_res)
       /\ pc = "joining" => ~valid_session]_vars

\* The router said GOODBYE to a joined session while a Subscribe was still
\* queued: the echo is the last message written and the engine is terminated
C11_Witness ==
    /\ pc = "terminated"
    /\ valid_session
    /\ sock_out # <<>>
    /\ sock_out[Len(sock_out)] = GoodbyeAndOut
    /\ Cardinality({i \in DOMAIN sock_out : sock_out[i].code = GOODBYE_ID}) = 1
    /\ \E c \in Cmds : cmds[c].kind = "Subscribe" /\ req_of[c] = NoId

\* ---------------------------------------------------------------- C12
\* No Shutdown command is on the command channel
NoShutdownSent == \A i \in DOMAIN ctl_channel : ctl_channel[i].kind # "Shutdown"

C12_NeverClientDied == \A i \in DOMAIN core_res : core_res[i] # "ClientDied"

\* ---------------------------------------------------------------- C13
\* The status messages the facade has taken off the status channel, read off
\* the status they led it to
Consumed(st) ==
    CASE st = "NoEventLoop" -> 0
      [] st = "Running" -> 1
      [] OTHER -> 2
\* The status messages the engine has sent so far
Sent == Consumed(core_status) + Len(core_res)

\* q is what is left of p after zero or more receives
IsSuffix(q, p) == \E k \in 0 .. Len(p) : q = SubSeq(p, k + 1, Len(p))

\* C13: the engine has sent nothing before the event loop starts, exactly
\* the Running notification Ok(()) while the loop runs, and at most one more
\* message once it has terminated; after that nothing is added to the status
\* channel.  The facade's status only goes NoEventLoop, Running,
\* Disconnected: it never goes back, a Disconnected value is never replaced
\* by another status, and set_next_status never panics.
C13_StatusProgress ==
    [][/\ core_status # "PanicAlreadyDisconnected"
       /\ core_status' # "PanicAlreadyDisconnected"
       /\ ~IsPanic(core_status) =>
            /\ pc = "init" => Sent = 0
            /\ pc \in {"running", "joining"} => Sent = 1
            /\ pc = "terminated" => Sent \in {1, 2}
            /\ (core_status = "NoEventLoop" /\ core_res # <<>>) => Head(core_res) = "Ok"
            /\ Consumed(core_status) <= Consumed(core_status')
            /\ core_status \in {"DisconnectedOk", "DisconnectedErr"} =>
                  core_status' \in {core_status, "Panic"}
       /\ pc = "terminated" => IsSuffix(core_res', core_res)]_vars

\* The facade went NoEventLoop, Running, Disconnected(Err(e)) and has taken
\* every message the engine sent
C13_Witness ==
    /\ core_status = "DisconnectedErr"
    /\ core_res = <<>>
    /\ pc = "terminated"

\* ---------------------------------------------------------------- C14
\* C14: the event loop ends in one of four ways, told apart by what the step
\* puts on the status channel: Ok(()) after a Status::Shutdown, Err(ClientDied)
\* after the command channel closed, and, after a failed transport read,
\* Err(e) exactly when valid_session is true and nothing at all exactly when
\* it is false; a failed read writes nothing on the transport.  The facade
\* turns Err(e) into Disconnected(Err(e)) whatever its status was, and after
\* a termination with valid_session false it never holds Disconnected(Err).
C14_ReadErrorStatus ==
    [][/\ (pc = "running" /\ pc' = "terminated") =>
            /\ \/ core_res' = Append(core_res, "Ok")
               \/ core_res' = Append(core_res, "ClientDied")
               \/ core_res' = Append(core_res, "Err") /\ sock_out' = sock_out
               \/ core_res' = core_res /\ sock_out' = sock_out
            /\ core_res' = Append(core_res, "Err") => valid_session
            /\ core_res' = core_res => ~valid_session
       /\ \A st \in {"NoEventLoop", "Running"} : set_next_status(st, "Err") = "DisconnectedErr"
       /\ (pc = "terminated" /\ ~valid_session) =>
            /\ \A i \in DOMAIN core_res : core_res[i] # "Err"
            /\ core_status # "DisconnectedErr"]_vars

\* After a Leave that wrote GOODBYE(wamp.close.close_realm) the transport
\* read failed: the engine is terminated and the facade, still Running, has
\* nothing to read on the status channel
C14_Witness ==
    /\ pc = "terminated"
    /\ ~valid_session
    /\ core_status = "Running"
    /\ core_res = <<>>
    /\ sock_out # <<>>
    /\ sock_out[Len(sock_out)].uri = "wamp.close.close_realm"

\* ---------------------------------------------------------------- C15
\* Since the last HELLO, the engine wrote only AUTHENTICATE messages
OnlyAuthenticateSinceHello ==
    \E k \in DOMAIN sock_out :
        /\ sock_out[k].code = HELLO_ID
        /\ \A i \in (k + 1) .. Len(sock_out) : sock_out[i].code = AUTHENTICATE_ID

\* C15: while join_realm waits for the reply to its HELLO, with a challenge
\* handler that returns Ok: each CHALLENGE it reads, however many came
\* before, writes exactly one message, the AUTHENTICATE with the signature
\* and extra the handler returned for it, and changes nothing else; a
\* WELCOME(session, details) writes nothing, sets valid_session, sends
\* Ok((session, details)) on the Join's reply channel and returns to the
\* event loop with Status::Ok.  Until then only AUTHENTICATE messages follow
\* the HELLO and valid_session stays false.
C15_JoinHandshake ==
    pc = "joining" =>
        /\ ~valid_session
        /\ OnlyAuthenticateSinceHello
        /\ res_val[joining.res] = <<>>
        /\ \A resp \in JoinMsgs, h \in ChallengeResults :
             LET e2 == join_realm_recv(Cur, resp, h, TRUE)
             IN  /\ (resp.code = CHALLENGE_ID /\ joining.handler /\ h.ok) =>
                       e2 = [Cur EXCEPT !.sock_out =
                                          Append(sock_out, Authenticate(h.signature, h.extra))]
                 /\ resp.code = WELCOME_ID =>
                       e2 = [Cur EXCEPT !.valid_session = TRUE,
                                        !.pc = "running",
                                        !.joining = NoReq,
                                        !.res_val[joining.res] =
                                            <<ReplyOk(resp.id, resp.details, "none")>>]

\* Two CHALLENGEs were answered with AUTHENTICATE, then WELCOME completed the
\* Join with Ok((42, details))
C15_Witness ==
    /\ Len(sock_out) = 3
    /\ sock_out[1].code = HELLO_ID
    /\ sock_out[2] = Authenticate("sig1", "{x}")
    /\ sock_out[3] = Authenticate("sig1", "{x}")
    /\ valid_session
    /\ pc = "running"
    /\ res_val[MutRes] = <<ReplyOk(42, "{roles}", "none")>>

\* ---------------------------------------------------------------- C16
\* The GOODBYE a Leave writes
GoodbyeCloseRealm ==
    Msg(GOODBYE_ID, 0, NoId, NoId, NoId, "{}", "wamp.close.close_realm", "none", "none")

\* The engine's part of C16: handling a Leave writes exactly one message,
\* GOODBYE({}, wamp.close.close_realm), clears valid_session and sends Ok(())
\* on the reply channel in that same step, and changes nothing else
LeaveHandled ==
    (pc = "running" /\ ctl_channel # <<>> /\ Head(ctl_channel).kind = "Leave") =>
        LET res == Head(ctl_channel).res
        IN  handle_local_request(Cur, Head(ctl_channel), <<>>, TRUE) =
                [Cur EXCEPT !.sock_out = Append(sock_out, GoodbyeCloseRealm),
                            !.valid_session = FALSE,
                            !.res_val[res] = <<ReplyOk(NoId, "none", "none")>>]

\* No step taken while the client has no session id puts a Leave on the
\* command channel
NoLeaveWithoutSession ==
    session_id = NoId =>
        \/ ctl_channel' = <<>>
        \/ Len(ctl_channel') <= Len(ctl_channel)
        \/ ctl_channel'[Len(ctl_channel')].kind # "Leave"

C17_FreshRequestId ==
    pc = "running" =>
        \A draws \in Draws :
            LET request == create_request(Cur, draws)
            IN  request # NoId =>
                  /\ request \notin pending_requests
                  /\ \E k \in DOMAIN draws :
                       /\ draws[k] = request
                       /\ \A j \in 1 .. (k - 1) : draws[j] \in pending_requests
                  /\ (ctl_channel # <<>> /\ draws_request(Cur, Head(ctl_channel))) =>
                       LET e2 == handle_local_request(Cur, Head(ctl_channel), draws, TRUE)
                       IN  /\ e2.pending_requests = pending_requests \cup {request}
                           /\ e2.req_of[Head(ctl_channel).res] = request

\* Two requests are pending under two different ids: the second was drawn
\* while the first was in pending_requests
C17_Witness ==
    /\ Cardinality(pending_requests) = 2
    /\ \A c \in Cmds : req_of[c] \in pending_requests
    /\ req_of[1] # req_of[2]
    /\ pc = "running"

\* ---------------------------------------------------------------- C18
\* C18: the HELLO written for a Join carries details["agent"], equal to the
\* configured agent string, if and only if that string is not empty.
C18_AgentAdvertised ==
    (pc = "running" /\ ctl_channel # <<>> /\ Head(ctl_channel).kind = "Join") =>
        LET req == Head(ctl_channel)
            agent == req.kwargs
            out == handle_local_request(Cur, req, <<>>, TRUE).sock_out
            hello == out[Len(out)]
        IN  /\ Len(out) = Len(sock_out) + 1
            /\ hello.code = HELLO_ID
            /\ hello.args # "none" <=> agent # ""
            /\ agent # "" => hello.args = agent

\* ---------------------------------------------------------------- C19
\* The tokens of a URI are non-empty: the URI is not empty, does not begin
\* or end with '.', and no '.' follows a '.'
TokensNonEmpty(uri) ==
    /\ uri # <<>>
    /\ uri[1] # "."
    /\ uri[Len(uri)] # "."
    /\ \A i \in 1 .. (Len(uri) - 1) : ~(uri[i] = "." /\ uri[i + 1] = ".")

\* A dot-separated sequence of non-empty tokens made only of lowercase
\* letters, digits and underscore that does not start with "wamp."
StrictUri(uri) ==
    /\ TokensNonEmpty(uri)
    /\ \A i \in DOMAIN uri : uri[i] \in LowerChars \cup DigitChars \cup {"_", "."}
    /\ ~starts_with(uri, <<"w", "a", "m", "p", ".">>)

\* C19: is_valid_strict_uri returns true exactly for the strict URIs.
C19_StrictUriValidator ==
    call_ret # <<>> => (call_ret[1] <=> StrictUri(call_arg[1]))

\* ---------------------------------------------------------------- C20
\* kwargs present implies args present
Normalized(m) == m.kwargs # "none" => m.args # "none"

\* C20: the tuple serialize makes of a message starts with the message's
\* code; deserialize applied to the tuple of a normalized message returns
\* Ok of that very message, every field and the presence of args and kwargs
\* included; applied to the tuple of a message with kwargs and no args it
\* returns the message with args empty instead of absent; applied to a
\* sequence that is empty or whose first element is not one of the 22
\* message codes it returns an error.
C20_CodecRoundTrip ==
    Len(call_ret) = 2 =>
        LET v == call_ret[1]
            got == call_ret[2]
        IN  IF call_arg[1] = "pack"
            THEN LET m == call_arg[2]
                 IN  /\ v[1] = m.code
                     /\ Normalized(m) => got = DeOk(m)
                     /\ ~Normalized(m) => got = DeOk([m EXCEPT !.args = "[]"])
            ELSE (v = <<>> \/ v[1] \notin MsgCodes) => ~got.ok

\* An EVENT with args and kwargs went through serialize and deserialize and
\* came back as it was
C20_Witness ==
    /\ Len(call_ret) = 2
    /\ call_arg[1] = "pack"
    /\ call_arg[2].code = EVENT_ID
    /\ call_arg[2].args = "a2"
    /\ call_arg[2].kwargs = "k1"
    /\ call_ret[1] = <<EVENT_ID, 7, 100, "{d}", "a2", "k1">>
    /\ call_ret[2] = DeOk(call_arg[2])

\* ---------------------------------------------------------------- C21
\* C21: every step that terminates the event loop adds one message to the
\* status channel, and a facade that holds NoEventLoop or Running never
\* panics with "The event loop died without sending a new status" when it
\* looks at the status channel.
C21_TerminalStatusSent ==
    [][/\ (pc # "terminated" /\ pc' = "terminated") =>
            Len(core_res') = Len(core_res) + 1
       /\ core_status \in {"NoEventLoop", "Running"} => core_status' # "Panic"]_vars

\* ---------------------------------------------------------------- C22
\* The kinds of reply the router sends for a request
ReplyCodes == {SUBSCRIBED_ID, UNSUBSCRIBED_ID, PUBLISHED_ID, REGISTERED_ID,
               UNREGISTERED_ID, RESULT_ID, ERROR_ID}

\* C22: a SUBSCRIBED, UNSUBSCRIBED, PUBLISHED, REGISTERED, UNREGISTERED,
\* RESULT or ERROR whose request id is not in pending_requests leaves the
\* whole state of the engine as it is, whatever the pending tables hold under
\* that id: no reply channel gets a value or is closed, no table, subscription
\* or registration changes, nothing is written, and the handler returns
\* Status::Ok.
C22_UnknownRequestDropped ==
    pc = "running" =>
        \A msg \in PeerMsgs :
            (msg.code \in ReplyCodes /\ msg.request \notin pending_requests) =>
                handle_peer_msg(Cur, msg, TRUE) = Cur

\* A Subscribe was completed, so that a second reply to its request id is a
\* reply to an unknown request, while another request is still pending
C22_Witness ==
    /\ pc = "running"
    /\ \E c, d \in Cmds :
         /\ cmds[c].kind = "Subscribe"
         /\ res_val[c] # <<>>
         /\ req_of[c] \notin pending_requests
         /\ req_of[d] \in pending_requests
         /\ req_of[d] # req_of[c]

\* ---------------------------------------------------------------- C23
\* C23: handling a Publish command without acknowledge, on a transport that
\* accepts the write, leaves pending_requests and pending_transactions as
\* they were.
C23_UnackedPublishLeavesNoEntry ==
    (/\ pc = "running"
     /\ ctl_channel # <<>>
     /\ Head(ctl_channel).kind = "Publish"
     /\ ~Head(ctl_channel).ack)
    => \A draws \in Draws :
         create_request(Cur, draws) # NoId =>
             LET e2 == handle_local_request(Cur, Head(ctl_channel), draws, TRUE)
             IN  /\ e2.pending_requests = pending_requests
                 /\ e2.pending_transactions = pending_transactions

\* ---------------------------------------------------------------- C24
\* The six commands that write a request on the transport
RequestKinds == {"Subscribe", "Unsubscribe", "Publish", "Register", "Unregister", "Call"}

\* C24: when the transport refuses the message of a Subscribe, Unsubscribe,
\* Publish, Register, Unregister or Call, the handler sends the send error
\* on the command's reply channel and on no other, writes nothing, leaves the
\* request id it drew out of pending_requests, puts it in no pending table
\* and returns Status::Shutdown; the shutdown that follows terminates the
\* engine with every table empty.
C24_SendFailure ==
    (/\ pc = "running"
     /\ ctl_channel # <<>>
     /\ Head(ctl_channel).kind \in RequestKinds
     /\ draws_request(Cur, Head(ctl_channel)))
    => \A draws \in Draws :
         create_request(Cur, draws) # NoId =>
             LET req == Head(ctl_channel)
                 e2 == handle_local_request(Cur, req, draws, FALSE)
                 e3 == shutdown(e2, Tail(ctl_channel))
             IN  /\ e2.req_of[req.res] = create_request(Cur, draws)
                 /\ e2.req_of[req.res] \notin e2.pending_requests
                 /\ Tables(e2) = Tables(Cur)
                 /\ e2.res_val = [res_val EXCEPT ![req.res] = <<SendError>>]
                 /\ e2.sock_out = sock_out
                 /\ e2.status = "Shutdown"
                 /\ e3.pc = "terminated"
                 /\ Tables(e3) = <<{}, EmptyTable, EmptyTable, EmptyTable, EmptyTable>>

\* The transport refused a CALL: the call got the send error and the engine
\* is terminated
C24_Witness ==
    \E c \in Cmds :
        /\ cmds[c].kind = "Call"
        /\ req_of[c] # NoId
        /\ res_val[c] = <<SendError>>
        /\ pc = "terminated"
        /\ Keys(pending_call) = {}
        /\ pending_requests = {}

\* ---------------------------------------------------------------- C25
\* C25: an ERROR whose request type is none of SUBSCRIBE, UNSUBSCRIBE,
\* PUBLISH, REGISTER, UNREGISTER, CALL leaves pending_requests and the four
\* pending tables as they were and sends nothing on any reply channel,
\* whether or not its request id is pending.
C25_UnknownErrorTypeDropped ==
    pc = "running" =>
        \A msg \in PeerMsgs :
            (msg.code = ERROR_ID /\ KindOf(msg.typ) = "None") =>
                LET e2 == handle_peer_msg(Cur, msg, TRUE)
                IN  /\ Tables(e2) = Tables(Cur)
                    /\ e2.res_val = res_val
                    /\ e2.res_closed = res_closed

\* ---------------------------------------------------------------- C26
\* The replies of a command's own kind
ReplyCodeOf(kind) ==
    CASE kind = "Subscribe" -> SUBSCRIBED_ID
      [] kind = "Unsubscribe" -> UNSUBSCRIBED_ID
      [] kind = "Publish" -> PUBLISHED_ID
      [] kind = "Register" -> REGISTERED_ID
      [] kind = "Unregister" -> UNREGISTERED_ID
      [] kind = "Call" -> RESULT_ID
OwnReply(kind, msg) ==
    \/ msg.code = ReplyCodeOf(kind)
    \/ msg.code = ERROR_ID /\ KindOf(msg.typ) = kind

\* C26: while the request of a Subscribe, Unsubscribe, Register, Unregister,
\* Call or acknowledged Publish is pending, a SUBSCRIBED, UNSUBSCRIBED,
\* PUBLISHED, REGISTERED, UNREGISTERED, RESULT or ERROR that carries its
\* request id and is not the reply of its kind or the ERROR naming its kind
\* sends nothing on its reply channel.
C26_OnlyOwnKindCompletes ==
    pc = "running" =>
        \A c \in Cmds :
            (/\ ExpectsReply(c)
             /\ req_of[c] \in pending_requests
             /\ TableOf(Cur, cmds[c].kind)[req_of[c]] = c)
            => \A msg \in PeerMsgs :
                 (/\ msg.code \in ReplyCodes
                  /\ msg.request = req_of[c]
                  /\ ~OwnReply(cmds[c].kind, msg))
                 => handle_peer_msg(Cur, msg, TRUE).res_val[c] = res_val[c]

\* ---------------------------------------------------------------- C27
\* A Leave was handled, and a HELLO was written after its GOODBYE
HelloAfterLeave ==
    \E i, k \in DOMAIN sock_out :
        /\ i < k
        /\ sock_out[i].code = GOODBYE_ID /\ sock_out[i].uri = "wamp.close.close_realm"
        /\ sock_out[k].code = HELLO_ID

\* C27: the router's GOODBYE(wamp.close.goodbye_and_out) that answers a Leave
\* does not disturb a later Join.  Read by the event loop before the Join,
\* it changes nothing; read by join_realm after its HELLO, it neither
\* completes the Join nor stops the engine; and the WELCOME join_realm reads
\* completes the Join with Ok and leaves the engine running.
C27_RejoinAfterLeave ==
    /\ (pc = "running" /\ ~valid_session) =>
            handle_peer_msg(Cur, GoodbyeAndOut, TRUE) = Cur
    /\ (pc = "joining" /\ HelloAfterLeave) =>
            /\ LET e2 == join_realm_recv(Cur, GoodbyeAndOut,
                                         CHOOSE x \in ChallengeResults : ~x.ok, TRUE)
               IN  /\ e2.status = "Ok"
                   /\ e2.res_val[MutRes] = <<>>
            /\ \A resp \in JoinMsgs : resp.code = WELCOME_ID =>
                 LET e2 == join_realm_recv(Cur, resp,
                                           CHOOSE x \in ChallengeResults : ~x.ok, TRUE)
                 IN  /\ e2.status = "Ok"
                     /\ e2.pc = "running"
                     /\ e2.res_val[MutRes] = <<ReplyOk(resp.id, resp.details, "none")>>

\* ---------------------------------------------------------------- C28
\* The command at the head of the command channel is of kind k for id x
ServingFor(k, x) ==
    /\ pc = "running"
    /\ ctl_channel # <<>>
    /\ Head(ctl_channel).kind = k
    /\ Head(ctl_channel).id = x

\* C28: while the engine runs, a subscription id enters subscriptions only
\* in the step that handles a SUBSCRIBED naming it for a request that is
\* pending as a Subscribe, and that step stores the Subscribe's event queue
\* under it; it leaves subscriptions only in the step that handles an
\* Unsubscribe command for it; an entry is never replaced.  Handling that
\* Unsubscribe removes the entry at once, with the UNSUBSCRIBE written and
\* its request pending, and the UNSUBSCRIBED or ERROR that answers it later
\* leaves subscriptions alone.  The same holds of rpc_endpoints with
\* REGISTERED, Unregister, UNREGISTER and UNREGISTERED.
C28_SubscriptionsKeys ==
    [][/\ pc' # "terminated" =>
            /\ \A s \in SubIds :
                 /\ (subscriptions[s] = NoId /\ subscriptions'[s] # NoId) =>
                        \E r \in pending_requests :
                            /\ pc = "running"
                            /\ pending_sub[r] # NoId
                            /\ cmds[pending_sub[r]].kind = "Subscribe"
                            /\ subscriptions' = [subscriptions EXCEPT ![s] = pending_sub[r]]
                            /\ handle_peer_msg(Cur, Msg(SUBSCRIBED_ID, 0, r, s, NoId, "", "",
                                                        "none", "none"), TRUE).subscriptions
                                 = subscriptions'
                 /\ (subscriptions[s] # NoId /\ subscriptions'[s] = NoId) =>
                        ServingFor("Unsubscribe", s)
                 /\ subscriptions[s] # NoId =>
                        subscriptions'[s] \in {subscriptions[s], NoId}
            /\ \A g \in RegIds :
                 /\ (rpc_endpoints[g] = NoId /\ rpc_endpoints'[g] # NoId) =>
                        \E r \in pending_requests :
                            /\ pc = "running"
                            /\ pending_register[r] # NoId
                            /\ cmds[pending_register[r]].kind = "Register"
                            /\ rpc_endpoints' = [rpc_endpoints EXCEPT ![g] = pending_register[r]]
                            /\ handle_peer_msg(Cur, Msg(REGISTERED_ID, 0, r, g, NoId, "", "",
                                                        "none", "none"), TRUE).rpc_endpoints
                                 = rpc_endpoints'
                 /\ (rpc_endpoints[g] # NoId /\ rpc_endpoints'[g] = NoId) =>
                        ServingFor("Unregister", g)
                 /\ rpc_endpoints[g] # NoId =>
                        rpc_endpoints'[g] \in {rpc_endpoints[g], NoId}
       /\ \A s \in SubIds :
            (ServingFor("Unsubscribe", s) /\ subscriptions[s] # NoId) =>
                \A draws \in Draws : create_request(Cur, draws) # NoId =>
                    LET e2 == handle_local_request(Cur, Head(ctl_channel), draws, TRUE)
                        r == create_request(Cur, draws)
                    IN  /\ e2.subscriptions = [subscriptions EXCEPT ![s] = NoId]
                        /\ e2.sock_out = Append(sock_out, Msg(UNSUBSCRIBE_ID, 0, r, s, NoId,
                                                              "", "", "none", "none"))
                        /\ r \in e2.pending_requests
                        /\ e2.pending_transactions[r] = Head(ctl_channel).res
                        /\ \A msg \in PeerMsgs :
                             (msg.request = r /\ (\/ msg.code = UNSUBSCRIBED_ID
                                                  \/ msg.code = ERROR_ID /\ msg.typ = UNSUBSCRIBE_ID))
                             => handle_peer_msg(e2, msg, TRUE).subscriptions = e2.subscriptions
       /\ \A g \in RegIds :
            (ServingFor("Unregister", g) /\ rpc_endpoints[g] # NoId) =>
                \A draws \in Draws : create_request(Cur, draws) # NoId =>
                    LET e2 == handle_local_request(Cur, Head(ctl_channel), draws, TRUE)
                        r == create_request(Cur, draws)
                    IN  /\ e2.rpc_endpoints = [rpc_endpoints EXCEPT ![g] = NoId]
                        /\ e2.sock_out = Append(sock_out, Msg(UNREGISTER_ID, 0, r, g, NoId,
                                                              "", "", "none", "none"))
                        /\ r \in e2.pending_requests
                        /\ e2.pending_transactions[r] = Head(ctl_channel).res
                        /\ \A msg \in PeerMsgs :
                             (msg.request = r /\ (\/ msg.code = UNREGISTERED_ID
                                                  \/ msg.code = ERROR_ID /\ msg.typ = UNREGISTER_ID))
                             => handle_peer_msg(e2, msg, TRUE).rpc_endpoints = e2.rpc_endpoints]_vars

\* A registration was accepted, the Unregister for it was handled and awaits
\* its UNREGISTERED, and the registration is already gone
C28_Witness ==
    /\ pc = "running"
    /\ \E c, u \in Cmds :
         /\ cmds[c].kind = "Register"
         /\ res_val[c] # <<>> /\ res_val[c][1].ok
         /\ cmds[u].kind = "Unregister"
         /\ cmds[u].id = res_val[c][1].id
         /\ req_of[u] \in pending_requests
         /\ pending_transactions[req_of[u]] = u
         /\ res_val[u] = <<>>
         /\ rpc_endpoints[cmds[u].id] = NoId

\* ---------------------------------------------------------------- C29
\* C29: handling an Unsubscribe whose subscription id is not in
\* subscriptions, or an Unregister whose registration id is not in
\* rpc_endpoints, sends one error on the command's reply channel and changes
\* nothing else, whatever WampId::generate would draw and whether or not the
\* transport would accept a write: no message is written, no request id is
\* drawn, every table is as it was and the handler returns Status::Ok.
C29_UnknownIdRejected ==
    (/\ pc = "running"
     /\ ctl_channel # <<>>
     /\ \/ /\ Head(ctl_channel).kind = "Unsubscribe"
           /\ subscriptions[Head(ctl_channel).id] = NoId
        \/ /\ Head(ctl_channel).kind = "Unregister"
           /\ rpc_endpoints[Head(ctl_channel).id] = NoId)
    => LET req == Head(ctl_channel)
       IN  \A draws \in Draws \cup {<<>>}, io \in BOOLEAN :
             LET e2 == handle_local_request(Cur, req, draws, io)
             IN  /\ Len(e2.res_val[req.res]) = 1
                 /\ ~e2.res_val[req.res][1].ok
                 /\ e2 = [Cur EXCEPT !.res_val[req.res] = <<e2.res_val[req.res][1]>>]
                 /\ e2.req_of[req.res] = NoId
                 /\ e2.status = "Ok"

\* An Unsubscribe of an id that is not in subscriptions got its error while
\* the engine kept running and wrote nothing for it
C29_Witness ==
    /\ pc = "running"
    /\ \E u \in Cmds :
         /\ cmds[u].kind = "Unsubscribe"
         /\ ~(\E i \in DOMAIN ctl_channel : ctl_channel[i].res = u)
         /\ res_val[u] = <<UnknownError>>
         /\ req_of[u] = NoId
         /\ \A i \in DOMAIN sock_out : sock_out[i].code # UNSUBSCRIBE_ID

\* ---------------------------------------------------------------- C30
\* The handler of the Register with reply channel c is in a table
InPendingRegister(e, c) == \E r \in ReqIds : e.pending_register[r] = c
InRpcEndpoints(e, c) == \E g \in RegIds : e.rpc_endpoints[g] = c

\* C30: a handler is never in pending_register and in rpc_endpoints at once.
\* It enters rpc_endpoints, under g, only in the step that handles
\* REGISTERED(req, g) for the request id req drawn for its Register, while it
\* waits in pending_register under req.  An ERROR(REGISTER, req) for a
\* pending Register takes the handler out of pending_register and puts it
\* nowhere; and the handler of a Register that was answered with an error is
\* never in rpc_endpoints and never in a unit of RPC work.
C30_HandlerOnlyAfterRegistered ==
    [][\A c \in Cmds :
         /\ ~(InPendingRegister(Cur, c) /\ InRpcEndpoints(Cur, c))
         /\ \A g \in RegIds :
              (rpc_endpoints[g] # c /\ rpc_endpoints'[g] = c) =>
                  /\ pc = "running"
                  /\ cmds[c].kind = "Register"
                  /\ req_of[c] \in pending_requests
                  /\ pending_register[req_of[c]] = c
                  /\ handle_peer_msg(Cur, Msg(REGISTERED_ID, 0, req_of[c], g, NoId, "", "",
                                              "none", "none"), TRUE).rpc_endpoints
                       = rpc_endpoints'
         /\ (/\ pc = "running"
             /\ cmds[c].kind = "Register"
             /\ req_of[c] \in pending_requests
             /\ pending_register[req_of[c]] = c) =>
                \A msg \in PeerMsgs :
                    (msg.code = ERROR_ID /\ msg.typ = REGISTER_ID /\ msg.request = req_of[c]) =>
                        LET e2 == handle_peer_msg(Cur, msg, TRUE)
                        IN  /\ ~InPendingRegister(e2, c)
                            /\ ~InRpcEndpoints(e2, c)
                            /\ e2.res_val[c] = <<ServerError(msg.uri, msg.details)>>
                            /\ e2.rpc_event_queue = rpc_event_queue
         /\ (cmds[c].kind = "Register" /\ res_val[c] # <<>> /\ ~res_val[c][1].ok) =>
                /\ ~InRpcEndpoints(Cur, c)
                /\ \A g \in RegIds : rpc_endpoints'[g] # c
                /\ \A i \in DOMAIN rpc_event_queue' : rpc_event_queue'[i].func # c]_vars

\* One Register was refused with an ERROR, another was accepted with
\* REGISTERED and an INVOCATION ran its handler
C30_Witness ==
    /\ pc = "running"
    /\ n_inv = 1
    /\ \E c, d \in Cmds :
         /\ cmds[c].kind = "Register"
         /\ res_val[c] # <<>> /\ res_val[c][1].err = "ServerError"
         /\ ~InPendingRegister(Cur, c)
         /\ cmds[d].kind = "Register"
         /\ InRpcEndpoints(Cur, d)

\* ---------------------------------------------------------------- C31
\* The message that answers an INVOCATION, given the InvocationResult
AnswerOf(req) ==
    IF req.ok
    THEN Msg(YIELD_ID, 0, req.id, NoId, NoId, "{}", "", req.args, req.kwargs)
    ELSE Msg(ERROR_ID, INVOCATION_ID, req.id, NoId, NoId, "{}",
             "wamp.async.rs.rpc.failed", req.args, "none")

\* What rpc_endpoints can hold
EndpointTables == [RegIds -> Cmds \cup {NoId}]

\* C31: handling an InvocationResult writes the YIELD, or the ERROR, for its
\* request and changes nothing else, and does so whatever rpc_endpoints
\* holds: with the procedure unregistered in the meantime the outcome is the
\* one it would be with the procedure still registered.  Handling an
\* Unregister leaves the RPC work channel and the commands queued behind it
\* alone, so the work of an INVOCATION accepted before it is still driven and
\* its InvocationResult still served.
C31_InFlightInvocationCompletes ==
    [][/\ (pc = "running" /\ ctl_channel # <<>>
             /\ Head(ctl_channel).kind = "InvocationResult") =>
            LET req == Head(ctl_channel)
                e2 == handle_local_request(Cur, req, <<>>, TRUE)
            IN  /\ e2 = [Cur EXCEPT !.sock_out = Append(sock_out, AnswerOf(req))]
                /\ \A t \in EndpointTables :
                     handle_local_request([Cur EXCEPT !.rpc_endpoints = t], req, <<>>, TRUE)
                       = [e2 EXCEPT !.rpc_endpoints = t]
       /\ (pc = "running" /\ ctl_channel # <<>> /\ Head(ctl_channel).kind = "Unregister"
             /\ pc' = "running" /\ ctl_channel' = Tail(ctl_channel)) =>
            rpc_event_queue' = rpc_event_queue]_vars

\* The procedure was unregistered after its INVOCATION was accepted and
\* before the handler's result came back: the UNREGISTER was written first,
\* the YIELD for the invocation after it
C31_Witness ==
    /\ n_inv = 1
    /\ \A g \in RegIds : rpc_endpoints[g] = NoId
    /\ \E i, k \in DOMAIN sock_out :
         /\ i < k
         /\ sock_out[i].code = UNREGISTER_ID
         /\ sock_out[k].code = YIELD_ID
         /\ sock_out[k].request \in InvocationIds

\* ---------------------------------------------------------------- C32
\* The messages written so far that answer an INVOCATION
InvocationAnswers ==
    {i \in DOMAIN sock_out :
        \/ sock_out[i].code = YIELD_ID
        \/ sock_out[i].code = ERROR_ID /\ sock_out[i].typ = INVOCATION_ID}

\* C32: handling an InvocationResult whose outcome is Err(e) writes exactly
\* one message: ERROR with request type INVOCATION (68), the invocation's
\* request id, empty details, the error uri wamp.async.rs.rpc.failed, the
\* text of e as args and no kwargs; and the engine never writes more answers
\* than it accepted invocations, so that invocation gets no YIELD.
C32_HandlerErrorReported ==
    /\ INVOCATION_ID = 68
    /\ (pc = "running" /\ ctl_channel # <<>>
          /\ Head(ctl_channel).kind = "InvocationResult" /\ ~Head(ctl_channel).ok) =>
         LET req == Head(ctl_channel)
         IN  handle_local_request(Cur, req, <<>>, TRUE).sock_out =
                 Append(sock_out, Msg(ERROR_ID, INVOCATION_ID, req.id, NoId, NoId, "{}",
                                      "wamp.async.rs.rpc.failed", req.args, "none"))
    /\ Cardinality(InvocationAnswers) <= n_inv

\* The handler of invocation 9 returned an error: the ERROR for it is the
\* only answer written and the engine is still running
C32_Witness ==
    /\ pc = "running"
    /\ n_inv = 1
    /\ \E i \in DOMAIN sock_out :
         /\ sock_out[i] = Msg(ERROR_ID, INVOCATION_ID, 9, NoId, NoId, "{}",
                              "wamp.async.rs.rpc.failed", "error text", "none")
         /\ InvocationAnswers = {i}

\* ---------------------------------------------------------------- C33
\* The ABORT messages the router can send
Aborts == {msg \in PeerMsgs : msg.code = ABORT_ID}

\* C33: a step of the event loop that has the effect of handling an ABORT
\* (the engine shut down as recv::abort leaves it) puts an error on the
\* status channel, which takes a facade that is Running to
\* Disconnected(Err), not to Disconnected(Ok).
C33_AbortIsProtocolError ==
    [][\A msg \in Aborts :
         (/\ pc = "running"
          /\ pc' = "terminated"
          /\ Frozen(Cur)' = Frozen(shutdown(handle_peer_msg(Cur, msg, TRUE), ctl_channel))
          /\ Len(core_res') = Len(core_res) + 1)
         => /\ core_res'[Len(core_res')] # "Ok"
            /\ set_next_status("Running", core_res'[Len(core_res')]) = "DisconnectedErr"]_vars

\* ---------------------------------------------------------------- C34
\* What join_realm leaves when it gives up: the Join's reply channel holds
\* the one error v, the engine is about to shut down, nothing was written
\* and valid_session is still false
JoinFailed(e2, v) ==
    e2 = [Cur EXCEPT !.joining = NoReq,
                     !.res_val[joining.res] = <<v>>,
                     !.status = "Shutdown"]

\* C34: while join_realm waits for the reply to its HELLO or AUTHENTICATE,
\* a message that is neither WELCOME nor CHALLENGE (ABORT, GOODBYE), a
\* CHALLENGE when the Join carried no handler, and a CHALLENGE whose
\* handler returns Err each send one error on the Join's reply channel,
\* leave valid_session false and return Status::Shutdown; an engine that
\* terminated out of join_realm has no session.
C34_JoinRefused ==
    /\ pc = "joining" =>
         /\ ~valid_session
         /\ res_val[joining.res] = <<>>
         /\ \A resp \in JoinMsgs, h \in ChallengeResults :
              LET e2 == join_realm_recv(Cur, resp, h, TRUE)
              IN  /\ resp.code \notin {WELCOME_ID, CHALLENGE_ID, 0} =>
                        JoinFailed(e2, UnknownError) /\ ~e2.valid_session
                  /\ (resp.code = CHALLENGE_ID /\ (~joining.handler \/ ~h.ok)) =>
                        JoinFailed(e2, UnknownError) /\ ~e2.valid_session
    /\ (pc = "terminated" /\ \E c \in Chans : res_val[c] = <<UnknownError>>) =>
         ~valid_session

\* One CHALLENGE was answered with AUTHENTICATE; the reply to the
\* AUTHENTICATE was refused, the Join failed and the engine terminated
C34_Witness ==
    /\ pc = "terminated"
    /\ ~valid_session
    /\ Len(sock_out) = 2
    /\ sock_out[1].code = HELLO_ID
    /\ sock_out[2] = Authenticate("sig1", "{x}")
    /\ res_val[MutRes] = <<UnknownError>>
    /\ core_res[Len(core_res)] = "Ok"

\* ---------------------------------------------------------------- C35
\* The GOODBYE messages the router can send
Goodbyes == {msg \in PeerMsgs : msg.code = GOODBYE_ID}

\* A step sets valid_session only in join_realm, reading the WELCOME that
\* completes the Join
SetOnlyByJoin ==
    (~valid_session /\ valid_session') =>
        /\ pc = "joining" /\ pc' = "running"
        /\ \E resp \in JoinMsgs :
             /\ resp.code = WELCOME_ID
             /\ res_val'[joining.res] = <<ReplyOk(resp.id, resp.details, "none")>>

\* A step clears valid_session only in handling a Leave command, and
\* leave_realm clears it whether or not the GOODBYE can be written
ClearedByLeave ==
    /\ (valid_session /\ ~valid_session') =>
         (pc = "running" /\ ctl_channel # <<>> /\ Head(ctl_channel).kind = "Leave")
    /\ (pc = "running" /\ ctl_channel # <<>> /\ Head(ctl_channel).kind = "Leave") =>
         \A io \in BOOLEAN :
             ~handle_local_request(Cur, Head(ctl_channel), <<>>, io).valid_session

\* A HELLO was written and no GOODBYE after it
HelloSinceGoodbye ==
    \E k \in DOMAIN sock_out :
        /\ sock_out[k].code = HELLO_ID
        /\ \A i \in (k + 1) .. Len(sock_out) : sock_out[i].code # GOODBYE_ID

\* C35 as stated: valid_session is false until a HELLO has been written; it
\* becomes true only in the step of join_realm that reads WELCOME and
\* completes the Join; it becomes false in the step that handles a Leave
\* command, whether or not the GOODBYE can be written; and a step with the
\* effect of handling a GOODBYE read by the event loop leaves it false.
C35_ValidSession ==
    [][/\ sock_out = <<>> => ~valid_session
       /\ SetOnlyByJoin
       /\ ClearedByLeave
       /\ \A msg \in Goodbyes :
            (/\ pc = "running"
             /\ Frozen(Cur)' = Frozen(shutdown(handle_peer_msg(Cur, msg, TRUE), ctl_channel)))
            => ~valid_session']_vars

\* C35, amended: valid_session is false until a HELLO has been written, is
\* set only by the WELCOME that completes a Join and is cleared only by
\* Leave, before the GOODBYE is written; a GOODBYE read by the event loop
\* never changes it, and one read while it is true ends the engine with it
\* still true.  In a running engine it is true exactly when a HELLO was
\* written and no GOODBYE after it.
C35_ValidSessionWhileRunning ==
    [][/\ sock_out = <<>> => ~valid_session
       /\ SetOnlyByJoin
       /\ ClearedByLeave
       /\ pc = "running" =>
            /\ valid_session <=> HelloSinceGoodbye
            /\ \A msg \in Goodbyes, io \in BOOLEAN :
                 LET e2 == handle_peer_msg(Cur, msg, io)
                 IN  /\ e2.valid_session = valid_session
                     /\ valid_session => e2.status = "Shutdown"]_vars

\* A Join was completed by WELCOME and a Leave then wrote its GOODBYE: the
\* engine runs on with valid_session false
C35_Witness ==
    /\ pc = "running"
    /\ ~valid_session
    /\ Len(sock_out) = 2
    /\ sock_out[1].code = HELLO_ID
    /\ sock_out[2] = Msg(GOODBYE_ID, 0, NoId, NoId, NoId, "{}", "wamp.close.close_realm",
                         "none", "none")
    /\ session_id = NoId
    /\ client_pc = "idle"

\* ---------------------------------------------------------------- C36
\* C36: while valid_session is false, a GOODBYE with reason
\* wamp.close.goodbye_and_out read by the event loop writes nothing, changes
\* no table, no reply channel and no queue, and returns Status::Ok, whether
\* or not the transport would accept a write; a GOODBYE with any other
\* reason is answered with GOODBYE(wamp.close.goodbye_and_out) and returns
\* Status::Shutdown.
C36_GoodbyeAcknowledged ==
    (pc = "running" /\ ~valid_session) =>
        \A msg \in Goodbyes, io \in BOOLEAN :
            LET e2 == handle_peer_msg(Cur, msg, io)
            IN  IF msg.uri = "wamp.close.goodbye_and_out"
                THEN /\ e2.sock_out = sock_out
                     /\ Tables(e2) = Tables(Cur)
                     /\ e2.subscriptions = subscriptions
                     /\ e2.rpc_endpoints = rpc_endpoints
                     /\ e2.status # "Shutdown"
                     /\ e2.pc = "running"
                     /\ e2 = Cur
                ELSE /\ e2.status = "Shutdown"
                     /\ io => e2.sock_out = Append(sock_out, GoodbyeAndOut)

\* A Leave wrote GOODBYE(wamp.close.close_realm) and completed its reply,
\* which leave_realm has not read yet: the engine runs on with valid_session
\* false, where the router's GOODBYE(wamp.close.goodbye_and_out) finds it
C36_Witness ==
    /\ pc = "running"
    /\ ~valid_session
    /\ sock_out # <<>>
    /\ sock_out[Len(sock_out)] = GoodbyeCloseRealm
    /\ client_pc = "leave"
    /\ res_val[client_res] = <<ReplyOk(NoId, "none", "none")>>
    /\ handle_peer_msg(Cur, GoodbyeAndOut, TRUE) = Cur

\* ---------------------------------------------------------------- C37
\* C37: the arms of serialize that end with the optional arguments are those
\* of ERROR, PUBLISH, EVENT, CALL, RESULT, INVOCATION and YIELD.  The tuple
\* of such a message is the code and the arm's fields, followed by args and
\* kwargs if kwargs is present, the empty args array standing in for absent
\* args; by args alone if only args is present; by nothing if neither is.
C37_TrailingFields ==
    /\ SerOptional = {8, 16, 36, 48, 50, 68, 70}
    /\ (Len(call_ret) >= 1 /\ call_arg[1] = "pack" /\ call_arg[2].code \in SerOptional) =>
         LET m == call_arg[2]
             v == call_ret[1]
             n == 1 + Len(SerFields(m.code))
         IN  /\ Len(v) >= n
             /\ \A i \in 1 .. Len(SerFields(m.code)) : v[i + 1] = m[SerFields(m.code)[i]]
             /\ m.kwargs # "none" =>
                  /\ Len(v) = n + 2
                  /\ v[n + 1] = (IF m.args = "none" THEN "[]" ELSE m.args)
                  /\ v[n + 2] = m.kwargs
             /\ (m.kwargs = "none" /\ m.args # "none") =>
                  /\ Len(v) = n + 1
                  /\ v[n + 1] = m.args
             /\ (m.kwargs = "none" /\ m.args = "none") => Len(v) = n

\* A PUBLISH with kwargs and no args was serialized with the empty args
\* array before its kwargs
C37_Witness ==
    /\ Len(call_ret) >= 1
    /\ call_arg[1] = "pack"
    /\ call_arg[2].code = PUBLISH_ID
    /\ call_arg[2].args = "none"
    /\ call_arg[2].kwargs = "k1"
    /\ call_ret[1] = <<PUBLISH_ID, 7, "{d}", "u", "[]", "k1">>

\* ---------------------------------------------------------------- transport/tcp.rs
\* u8 `&` and `|`
RECURSIVE BitAnd(_, _)
BitAnd(a, b) ==
    IF a = 0 \/ b = 0 THEN 0
    ELSE (a % 2) * (b % 2) + 2 * BitAnd(a \div 2, b \div 2)

RECURSIVE BitOr(_, _)
BitOr(a, b) ==
    IF a = 0 THEN b
    ELSE IF b = 0 THEN a
    ELSE (IF a % 2 = 1 \/ b % 2 = 1 THEN 1 ELSE 0) + 2 * BitOr(a \div 2, b \div 2)

\* [u8; 4], indexed from 0 as in the source
Bytes4(b0, b1, b2, b3) ==
    [i \in 0 .. 3 |-> CASE i = 0 -> b0 [] i = 1 -> b1 [] i = 2 -> b2 [] i = 3 -> b3]

MAX_MSG_SZ == 16777216
MIN_MSG_SZ == 512

\* SerializerType as u8
Json == 1
MsgPack == 2
Cbor == 0

\* u32::checked_next_power_of_two: the smallest power of two >= x.  Above
\* 2^30 the result, Some(2^31) or None, lies beyond the integers TLC has; 0
\* stands for both, which set_msg_size turns into MAX_MSG_SZ alike.
RECURSIVE NextPow2From(_, _)
NextPow2From(x, p) == IF p >= x THEN p ELSE NextPow2From(x, 2 * p)
checked_next_power_of_two(x) ==
    IF x > 1073741824 THEN 0 ELSE NextPow2From(x, 1)

\* HandshakeCtx::new
HandshakeCtx_new ==
    [msg_size |-> 0,
     serializer |-> Json,
     client |-> Bytes4(127, BitAnd(240, BitAnd(MsgPack, 15)), 0, 0),
     server |-> Bytes4(0, 0, 0, 0)]

\* HandshakeCtx::set_msg_size
set_msg_size(h, msg_size) ==
    LET p == checked_next_power_of_two(msg_size)
        req_size == IF p = 0 THEN MAX_MSG_SZ
                    ELSE IF p < MIN_MSG_SZ THEN MIN_MSG_SZ
                    ELSE IF p > MAX_MSG_SZ THEN MAX_MSG_SZ
                    ELSE p
    IN  [h EXCEPT !.msg_size = req_size,
                  !.client[1] = BitOr(BitAnd(@, 15), 240)]

\* HandshakeCtx::set_serializer
set_serializer(h, serializer) ==
    [h EXCEPT !.serializer = serializer,
              !.client[1] = BitOr(BitAnd(@, 240), BitAnd(serializer, 15))]

\* HandshakeCtx::validate, continuing on an invalid-size error as on an
\* unsupported serializer
validate_size_as_serializer(h) ==
    IF h.server[0] # 127 \/ h.server[2] # 0 \/ h.server[3] # 0
    THEN "UnexpectedResponse"
    ELSE IF h.server[1] # h.client[1]
    THEN IF BitAnd(h.server[1], 15) # 0
         THEN "UnexpectedResponse"
         ELSE LET server_error == BitAnd(h.server[1], 240) \div 16
              IN  CASE server_error = 1 -> "SerializerNotSupported"
                    [] server_error = 2 -> "SerializerNotSupported"
                    [] server_error = 4 -> "MaximumServerConn"
                    [] OTHER -> "UnexpectedResponse"
    ELSE "Ok"

\* HandshakeCtx::validate: "Ok" or the name of the TransportError
validate(h) ==
    IF h.server[0] # 127 \/ h.server[2] # 0 \/ h.server[3] # 0
    THEN "UnexpectedResponse"
    ELSE IF h.server[1] # h.client[1]
    THEN IF BitAnd(h.server[1], 15) # 0
         THEN "UnexpectedResponse"
         ELSE LET server_error == BitAnd(h.server[1], 240) \div 16
              IN  CASE server_error = 1 -> "SerializerNotSupported"
                    [] server_error = 2 -> "InvalidMaximumMsgSize"
                    [] server_error = 4 -> "MaximumServerConn"
                    [] OTHER -> "UnexpectedResponse"
    ELSE "Ok"

\* ClientConfig::get_max_msg_size: None (here 0) when nothing was configured
get_max_msg_size(max_msg_size) == max_msg_size

\* connect, before its loop: the handshake with the message size set.  c is
\* the state of the call: the handshake, the number of streams opened, what
\* was written on each and read from each, and the value returned (<<>>
\* while the loop runs).
connect_begin(max_msg_size) ==
    LET m == get_max_msg_size(max_msg_size)
        msg_size == IF m # 0 THEN m ELSE MAX_MSG_SZ
    IN  [handshake |-> set_msg_size(HandshakeCtx_new, msg_size),
         streams |-> 0,
         written |-> <<>>,
         replies |-> <<>>,
         result |-> <<>>]

ConnectionFailed == <<"Err", "ConnectionFailed">>

\* One pass of connect's loop for `serializer`.  io tells which of the
\* connection, the write and the read fails, if any; reply is what the
\* server answers.
connect_iteration(c, serializer, io, reply) ==
    IF io = "connect_failed"
    THEN [c EXCEPT !.result = ConnectionFailed]
    ELSE LET stream == c.streams + 1
             h1 == set_serializer(c.handshake, serializer)
             c1 == [c EXCEPT !.streams = stream, !.handshake = h1]
         IN  IF io = "write_failed"
             THEN [c1 EXCEPT !.result = ConnectionFailed]
             ELSE LET c2 == [c1 EXCEPT !.written = Append(@, [stream |-> stream,
                                                                bytes |-> h1.client])]
                  IN  IF io = "read_failed"
                      THEN [c2 EXCEPT !.result = ConnectionFailed]
                      ELSE LET h2 == [h1 EXCEPT !.server = reply]
                               c3 == [c2 EXCEPT !.handshake = h2,
                                                !.replies = Append(@, [stream |-> stream,
                                                                       bytes |-> reply])]
                               e == validate(h2)
                           IN  CASE e = "Ok" -> [c3 EXCEPT !.result = <<"Ok", serializer, stream>>]
                                 [] e = "SerializerNotSupported" -> c3
                                 [] OTHER -> [c3 EXCEPT !.result = ConnectionFailed]

\* The maximum message sizes a ClientConfig is given (0: none set)
MsgSizes == {0, 1, 512, 513, 65536, 16777216, 16777217, 2147483647}

\* The serializer lists a ClientConfig is given: every list without
\* repetition
SerializerLists ==
    {s \in UNION {[1 .. n -> {Json, MsgPack, Cbor}] : n \in 0 .. 3} :
        \A i \in DOMAIN s, j \in DOMAIN s : i # j => s[i] # s[j]}

\* What a server can answer to the handshake `client`: the echo, the three
\* errors of the protocol and an unassigned one, a wrong magic byte, a
\* non-zero reserved byte, the same serializer with another size, an error
\* with a non-zero low nibble
ServerReplies(client) ==
    {client,
     Bytes4(127, 16, 0, 0), Bytes4(127, 32, 0, 0), Bytes4(127, 64, 0, 0), Bytes4(127, 48, 0, 0),
     Bytes4(0, client[1], 0, 0), Bytes4(127, client[1], 0, 1), Bytes4(127, 16, 1, 0),
     Bytes4(127, BitOr(112, BitAnd(client[1], 15)), 0, 0),
     Bytes4(127, 17, 0, 0)}

IoOutcomes == {"ok", "connect_failed", "write_failed", "read_failed"}

\* The application calls connect with a configuration of its choice
InitConnect ==
    /\ Idle
    /\ call_arg \in {<<"connect", m, s>> : m \in MsgSizes, s \in SerializerLists}
    /\ call_ret = <<>>

Call_connect ==
    /\ call_arg # <<>>
    /\ call_arg[1] = "connect"
    /\ call_ret = <<>>
    /\ call_ret' = <<connect_begin(call_arg[2])>>
    /\ UNCHANGED <<engine_vars, ctl_channel, core_res, cmds, client_vars, call_arg>>

\* `for serializer in config.get_serializers()`: the next serializer
Connect_iteration ==
    /\ Len(call_ret) = 1
    /\ call_arg[1] = "connect"
    /\ LET c == call_ret[1]
           k == Len(c.replies) + 1
       IN  /\ c.result = <<>>
           /\ k <= Len(call_arg[3])
           /\ \E io \in IoOutcomes :
                \E reply \in (IF io = "ok"
                              THEN ServerReplies(set_serializer(c.handshake, call_arg[3][k]).client)
                              ELSE {Bytes4(0, 0, 0, 0)}) :
                   call_ret' = <<connect_iteration(c, call_arg[3][k], io, reply)>>
    /\ UNCHANGED <<engine_vars, ctl_channel, core_res, cmds, client_vars, call_arg>>

\* The loop ran out of serializers: return Err(TransportError::ConnectionFailed)
Connect_exhausted ==
    /\ Len(call_ret) = 1
    /\ call_arg[1] = "connect"
    /\ LET c == call_ret[1]
       IN  /\ c.result = <<>>
           /\ Len(c.replies) = Len(call_arg[3])
           /\ call_ret' = <<[c EXCEPT !.result = ConnectionFailed]>>
    /\ UNCHANGED <<engine_vars, ctl_channel, core_res, cmds, client_vars, call_arg>>

NextConnect ==
    \/ Call_connect
    \/ Connect_iteration
    \/ Connect_exhausted

SpecConnect == InitConnect /\ [][NextConnect]_vars

\* ---------------------------------------------------------------- C38
\* The reply accepts the proposal: magic byte, zero reserved bytes and
\* byte 1 as proposed
ReplyAccepts(reply, proposal) ==
    reply[0] = 127 /\ reply[2] = 0 /\ reply[3] = 0 /\ reply[1] = proposal[1]

\* The reply encodes error 1, serializer unsupported
ReplyError1(reply) == reply = Bytes4(127, 16, 0, 0)

\* C38: connect opens one stream per serializer it tries, in the order of
\* the configured list, and writes on it the handshake proposing that
\* serializer.  It goes on to the next serializer only after a reply that
\* encodes error 1; a reply that accepts the proposal makes it return that
\* stream and that serializer; any other reply makes it return
\* ConnectionFailed; and so does a list in which every serializer was
\* answered with error 1, and a connection, a write or a read that fails.
C38_ConnectTriesInOrder ==
    (Len(call_ret) = 1 /\ call_arg[1] = "connect") =>
        LET c == call_ret[1]
            sers == call_arg[3]
            n == Len(c.replies)
        IN  /\ n <= Len(sers)
            /\ Len(c.written) >= n
            /\ \A i \in DOMAIN c.written :
                 /\ c.written[i].stream = i
                 /\ BitAnd(c.written[i].bytes[1], 15) = sers[i]
            /\ \A i \in DOMAIN c.replies :
                 /\ c.replies[i].stream = i
                 /\ i < n => ReplyError1(c.replies[i].bytes)
            /\ n >= 1 =>
                 LET last == c.replies[n].bytes
                 IN  /\ ReplyAccepts(last, c.written[n].bytes) <=> c.result = <<"Ok", sers[n], n>>
                     /\ ReplyError1(last) => c.result \in {<<>>, ConnectionFailed}
                     /\ (ReplyError1(last) /\ c.result = <<>> /\ n < Len(sers)) =>
                          c.streams = n
                     /\ (~ReplyAccepts(last, c.written[n].bytes) /\ ~ReplyError1(last)) =>
                          c.result = ConnectionFailed
            /\ (c.result # <<>> /\ c.result[1] = "Ok") => n >= 1

\* Json was answered with error 1 on the first stream, MsgPack was accepted
\* on the second: connect returned the second stream and MsgPack
C38_Witness ==
    /\ Len(call_ret) = 1
    /\ call_arg[1] = "connect"
    /\ call_arg[3] = <<Json, MsgPack, Cbor>>
    /\ Len(call_ret[1].replies) = 2
    /\ call_ret[1].replies[1].bytes = Bytes4(127, 16, 0, 0)
    /\ call_ret[1].written[2] = [stream |-> 2, bytes |-> Bytes4(127, 242, 0, 0)]
    /\ call_ret[1].replies[2].bytes = Bytes4(127, 242, 0, 0)
    /\ call_ret[1].result = <<"Ok", MsgPack, 2>>

\* ---------------------------------------------------------------- C39
\* The smallest k with 2^k >= x
RECURSIVE CeilLog2From(_, _, _)
CeilLog2From(x, k, p) == IF p >= x THEN k ELSE CeilLog2From(x, k + 1, 2 * p)
CeilLog2(x) == IF x > 1073741824 THEN 31 ELSE CeilLog2From(x, 0, 1)

Clamp(x, lo, hi) == IF x < lo THEN lo ELSE IF x > hi THEN hi ELSE x

\* C39: every handshake connect writes has 0x7F in byte 0 and 0 in bytes 2
\* and 3; the low nibble of byte 1 is the code of the serializer proposed
\* (Json 1, MsgPack 2, Cbor 0) and its high nibble is
\* ceil(log2(max_msg_size)) - 9 clamped to 0 .. 15, max_msg_size being the
\* configured size, or 2^24 when none is configured.
C39_HandshakeBytes ==
    /\ Json = 1 /\ MsgPack = 2 /\ Cbor = 0
    /\ (Len(call_ret) = 1 /\ call_arg[1] = "connect") =>
         LET size == IF call_arg[2] = 0 THEN MAX_MSG_SZ ELSE call_arg[2]
         IN  \A i \in DOMAIN call_ret[1].written :
                 LET b == call_ret[1].written[i].bytes
                 IN  /\ b[0] = 127 /\ b[2] = 0 /\ b[3] = 0
                     /\ b[1] % 16 = call_arg[3][i]
                     /\ b[1] \div 16 = Clamp(CeilLog2(size) - 9, 0, 15)

\* ---------------------------------------------------------------- transport/tcp.rs, frames
\* enum TcpMsg as u8
Regular == 0
Ping == 1
Pong == 2

\* TcpMsg::from_id: Option<TcpMsg>, <<>> for None
from_id(in_id) ==
    CASE in_id = Regular -> <<Regular>>
      [] in_id = Ping -> <<Ping>>
      [] in_id = Pong -> <<Pong>>
      [] OTHER -> <<>>

\* TcpMsg::to_id
to_id(t) == t

\* u32::to_be_bytes
to_be_bytes(len) ==
    Bytes4((len \div 16777216) % 256, (len \div 65536) % 256, (len \div 256) % 256, len % 256)

\* MsgPrefix::set_msg_len
set_msg_len(bytes, len) ==
    LET len_bytes == to_be_bytes(len)
    IN  [bytes EXCEPT ![1] = len_bytes[1], ![2] = len_bytes[2], ![3] = len_bytes[3]]

\* MsgPrefix::new_from; msg_len is an Option<u32>, <<>> for None
new_from(t, msg_len) ==
    LET bytes == Bytes4(BitAnd(7, to_id(t)), 0, 0, 0)
    IN  IF msg_len # <<>> THEN set_msg_len(bytes, msg_len[1]) ELSE bytes

\* MsgPrefix::payload_type
payload_type(bytes) == BitAnd(bytes[0], 7)

\* MsgPrefix::msg_type, leaving out the test of the first 5 bits
msg_type_unchecked(bytes) == from_id(payload_type(bytes))

\* MsgPrefix::msg_type
msg_type(bytes) ==
    IF BitAnd(bytes[0], 248) # 0 THEN <<>> ELSE from_id(payload_type(bytes))

\* MsgPrefix::payload_len
payload_len(bytes) == bytes[3] + bytes[2] * 256 + bytes[1] * 65536

\* TcpTransport::send for a payload of len bytes: what was written, in
\* order, and the value returned.  io tells which write fails, if any.
send(len, io) ==
    LET header == new_from(Regular, <<len>>)
    IN  IF io = "header_failed"
        THEN [written |-> <<>>, result |-> "SendFailed"]
        ELSE IF io = "payload_failed"
        THEN [written |-> <<header>>, result |-> "SendFailed"]
        ELSE [written |-> <<header, len>>, result |-> "Ok"]

ReceiveFailed == [ok |-> FALSE, payload |-> <<>>, rest |-> <<>>]

\* TcpTransport::recv on a stream of frames, each a 4-byte prefix followed
\* by the payload_len bytes it announces: the payload returned and what is
\* left to read, or ReceiveFailed when the stream has ended or a prefix is
\* invalid
RECURSIVE recv(_)
recv(stream) ==
    IF stream = <<>> THEN ReceiveFailed
    ELSE LET header == Head(stream).bytes
             t == msg_type(header)
         IN  IF t = <<>> THEN ReceiveFailed
             ELSE IF t[1] = Regular
             THEN [ok |-> TRUE, payload |-> Head(stream).payload, rest |-> Tail(stream)]
             ELSE recv(Tail(stream))

\* The payload lengths send is called with
PayloadLens == {0, 1, 255, 256, 65535, 65536, 16777215, 16777216, 16777217}

MaxFrames == 3

\* The first bytes and payload lengths of the frames a peer sends
FirstBytes == {0, 1, 2, 3, 7, 8, 9, 128}
FrameLens == {0, 3}

\* The streams recv reads: up to MaxFrames frames; the payload of the i-th
\* frame is named <<i, its length>>
Streams ==
    {[i \in DOMAIN f |-> [bytes |-> set_msg_len(Bytes4(f[i][1], 0, 0, 0), f[i][2]),
                          payload |-> <<i, f[i][2]>>]] :
        f \in UNION {[1 .. n -> FirstBytes \X FrameLens] : n \in 0 .. MaxFrames}}

SendOutcomes == {"ok", "header_failed", "payload_failed"}

\* The engine sends a payload, or reads the frames of a stream
InitFrame ==
    /\ Idle
    /\ call_arg \in {<<"send", n>> : n \in PayloadLens} \cup {<<"recv", s>> : s \in Streams}
    /\ call_ret = <<>>

Call_send ==
    /\ call_arg # <<>>
    /\ call_arg[1] = "send"
    /\ call_ret = <<>>
    /\ \E io \in SendOutcomes : call_ret' = <<send(call_arg[2], io)>>
    /\ UNCHANGED <<engine_vars, ctl_channel, core_res, cmds, client_vars, call_arg>>

\* The peer reads the prefix send wrote
Call_payload_len ==
    /\ call_arg # <<>>
    /\ call_arg[1] = "send"
    /\ Len(call_ret) = 1
    /\ call_ret[1].written # <<>>
    /\ call_ret' = Append(call_ret, [len |-> payload_len(call_ret[1].written[1]),
                                     typ |-> msg_type(call_ret[1].written[1])])
    /\ UNCHANGED <<engine_vars, ctl_channel, core_res, cmds, client_vars, call_arg>>

\* recv is called again until it fails
Call_recv ==
    /\ call_arg # <<>>
    /\ call_arg[1] = "recv"
    /\ IF call_ret = <<>> THEN TRUE ELSE call_ret[Len(call_ret)].ok
    /\ call_ret' = Append(call_ret, recv(IF call_ret = <<>> THEN call_arg[2]
                                         ELSE call_ret[Len(call_ret)].rest))
    /\ UNCHANGED <<engine_vars, ctl_channel, core_res, cmds, client_vars, call_arg>>

NextFrame ==
    \/ Call_send
    \/ Call_payload_len
    \/ Call_recv

SpecFrame == InitFrame /\ [][NextFrame]_vars

\* ---------------------------------------------------------------- C40
\* The prefix is invalid: one of its bits 7..3 is set or its kind is 3..7
BadPrefix(bytes) == bytes[0] \div 8 # 0 \/ bytes[0] % 8 \in 3 .. 7

\* The frames of a stream before its first invalid prefix
BeforeBadPrefix(stream) ==
    LET bad == {i \in DOMAIN stream : BadPrefix(stream[i].bytes)}
    IN  IF bad = {} THEN stream
        ELSE SubSeq(stream, 1, (CHOOSE i \in bad : \A j \in bad : i <= j) - 1)

IsRegularFrame(f) == f.bytes[0] = 0

\* C40: for a payload of n < 2^24 bytes the prefix send writes is 0 followed
\* by n in big-endian, payload_len of it is n and msg_type of it is
\* Regular.  The calls of recv on a stream return, in their order of
\* arrival, the payloads of the Regular frames that come before the first
\* invalid prefix, a Ping or Pong frame being passed over with its payload;
\* the call after the last of them fails.
C40_FramePrefix ==
    /\ (call_arg[1] = "send" /\ call_arg[2] < 16777216 /\ Len(call_ret) >= 1) =>
         LET n == call_arg[2]
             w == call_ret[1].written
         IN  /\ w # <<>> =>
                  /\ w[1] = Bytes4(0, (n \div 65536) % 256, (n \div 256) % 256, n % 256)
                  /\ w[1][1] * 65536 + w[1][2] * 256 + w[1][3] = n
             /\ Len(w) = 2 => w[2] = n
             /\ Len(call_ret) = 2 => call_ret[2] = [len |-> n, typ |-> <<Regular>>]
    /\ call_arg[1] = "recv" =>
         LET expected == SelectSeq(BeforeBadPrefix(call_arg[2]), IsRegularFrame)
         IN  /\ Len(call_ret) <= Len(expected) + 1
             /\ \A j \in DOMAIN call_ret :
                  IF j <= Len(expected)
                  THEN call_ret[j].ok /\ call_ret[j].payload = expected[j].payload
                  ELSE ~call_ret[j].ok

\* A Ping frame with 3 bytes of payload, a Regular frame and a frame whose
\* prefix has bit 3 set arrived: recv returned the payload of the second
\* frame, then failed
C40_Witness ==
    /\ call_arg[1] = "recv"
    /\ Len(call_arg[2]) = 3
    /\ call_arg[2][1].bytes = Bytes4(1, 0, 0, 3)
    /\ call_arg[2][2].bytes = Bytes4(0, 0, 0, 3)
    /\ call_arg[2][3].bytes[0] = 8
    /\ Len(call_ret) = 2
    /\ call_ret[1].ok /\ call_ret[1].payload = <<2, 3>>
    /\ ~call_ret[2].ok
====
